---- MODULE Spec2Model ----
(***************************************************************************)
(* One streaming session of asr_api_service: the manager's handlers for    *)
(* inbound config / control / audio messages (core/streaming/manager.py),  *)
(* the StreamingProcessor they drive (core/streaming/processor.py), its    *)
(* AudioBuffer (core/audio/buffer.py) and VADProcessor (core/audio/vad.py).*)
(*                                                                         *)
(* Units.  Sample indices are samples.  Durations (seconds, floats in the  *)
(* code) are rationals d / DurDen; int(duration * rate) is DurToSamples.   *)
(* The wall clock is read in whole milliseconds (int(time.time() * 1000)). *)
(* The frame classifier and the transcription provider are external: the   *)
(* flag of a push and the outcome of a transcription are inputs.           *)
(***************************************************************************)
EXTENDS Integers, Sequences, FiniteSets, TLC

VARIABLES
    processor,             \* client.processor: "none" | "no_key" | "test_failed" | "ready"
    max_segment_duration,  \* StreamingProcessor.max_segment_duration
    lookback_duration,     \* settings.audio_lookback_duration
    is_recording,          \* StreamingProcessor.is_recording
    buffer,                \* AudioBuffer.buffer; a sample is named by its arrival number
    speech_start_index,    \* StreamingProcessor.speech_start_index (NoneIdx = None)
    last_chunk_end_index,  \* StreamingProcessor.last_chunk_end_index
    recent_chunks,         \* StreamingProcessor.recent_chunks (AudioSegment objects)
    previous_results,      \* StreamingProcessor.previous_results (texts)
    vad_is_speaking,       \* VADProcessor.is_speaking
    vad_silence_start,     \* VADProcessor.silence_start (NoneIdx = None)
    now,                   \* last reading of time.time(), in milliseconds
    appended,              \* samples received by the session so far
    utt,                   \* utterances started by the controller so far
    results,               \* every result message sent on the websocket, in order
    sent,                  \* messages sent while handling the last inbound message
    last_msg,              \* the last inbound message
    status_name_bound,     \* whether processor.py's global name StreamingStatus resolves
    n_controls,            \* control messages handled so far
    n_configs,             \* config messages handled so far
    calls,                 \* the transcription request each task is awaiting, if any
    inbox,                 \* audio pushes received by the transport, not yet handled
    wire,                  \* every outbound message with the inbound message causing it
    n_pushes,              \* audio pushes received so far
    clients,               \* StreamingManager.clients: the ids of the registered clients
    total_connections,     \* StreamingManager.total_connections
    _lock,                 \* the task holding StreamingManager._lock (NoneIdx = unlocked)
    conn,                  \* where each streaming_websocket task is
    configured,            \* the registered clients whose client.processor is set
    cleaned,               \* the clients whose processor.cleanup() has run
    outbox,                \* the messages sent on each connection's websocket
    teardown,              \* where the task running StreamingManager.cleanup is
    todo,                  \* the client ids cleanup still has to remove
    ab_buffer,             \* AudioBuffer.buffer of a buffer that is called directly
    ab_count,              \* samples that buffer has stored so far
    ab_call,               \* the last call made on that buffer, with what it returned
    vad_processors,        \* the VADProcessor objects: stream_vad.py's global, one per session
    vad_conns,             \* where each connection that drives a VADProcessor is
    vad_call,              \* the last call a connection made on a VADProcessor
    vad_clock,             \* time.time() as last read by VADProcessor.process
    use_real_vad,          \* VADProcessor.use_real_vad: whether ten_vad could be imported
    last_activity,         \* StreamingClient.last_activity of each connection's client
    wall_time              \* time.time() as the manager's tasks read it

vars == <<processor, max_segment_duration, lookback_duration, is_recording, buffer,
          speech_start_index, last_chunk_end_index, recent_chunks, previous_results,
          vad_is_speaking, vad_silence_start, now, appended, utt, results, sent,
          last_msg, status_name_bound, n_controls, n_configs, calls, inbox, wire,
          n_pushes, clients, total_connections, _lock, conn, configured, cleaned,
          outbox, teardown, todo, ab_buffer, ab_count, ab_call, vad_processors,
          vad_conns, vad_call, vad_clock, use_real_vad, last_activity, wall_time>>

\* the variables that only move when a handler is suspended at an await
suspension_vars == <<calls, inbox, wire, n_pushes>>

\* the variables of the StreamingManager and of the tasks that call it
manager_vars == <<clients, total_connections, _lock, conn, configured, cleaned,
                  outbox, teardown, todo, last_activity, wall_time>>

\* the variables of one session
session_vars == <<processor, max_segment_duration, lookback_duration, is_recording,
                  buffer, speech_start_index, last_chunk_end_index, recent_chunks,
                  previous_results, vad_is_speaking, vad_silence_start, now, appended,
                  utt, results, sent, last_msg, status_name_bound, n_controls,
                  n_configs, calls, inbox, wire, n_pushes>>

\* an AudioBuffer on its own
buffer_vars == <<ab_buffer, ab_count, ab_call>>

\* the VADProcessor objects and the connections that drive them
endpoint_vars == <<vad_processors, vad_conns, vad_call, vad_clock, use_real_vad>>

\* the variables outside the streaming session and its manager
standalone_vars == <<buffer_vars, endpoint_vars>>

-----------------------------------------------------------------------------
(* Bounds of the model *)

MaxSamples == 5
MaxPush == 2
MaxClock == 2
MaxControls == 2
MaxConfigs == 1
MaxInbox == 2
MaxFlightSamples == 3
MaxConns == 4
MaxStored == 3
Full == 2
MaxVadConns == 2
MaxLocal == 2
MaxTime == 2
DurDen == 4

(* Program constants *)

SampleRate == 2
NoneIdx == -1
RecentChunksCap == 3
HistoryCap == 10
\* settings.streaming_max_clients, scaled down
streaming_max_clients == 2
\* the task that runs StreamingManager.cleanup; the websocket tasks are 1..MaxConns
CleanupTask == 0
Conns == 1..MaxConns
\* settings.vad_hop_size, scaled down
hop_size == 2
\* window_size of stream_vad_processing, scaled down
window_size == 2
\* settings.vad_silence_duration, in clock ticks
silence_duration == 1
\* the connections that drive a VADProcessor
VadConns == 1..MaxVadConns
\* the VADProcessor objects: 0 is the module global _vad_processor of stream_vad.py,
\* c is the one that StreamingProcessor.initialize creates for connection c
VadObjects == 0..MaxVadConns

\* chunk_duration values a config message may carry: 0.5 <= d/DurDen <= 10.0
ChunkDurations == {d \in {2, 6} : 2 * d >= DurDen /\ d <= 10 * DurDen}
\* values of settings.audio_lookback_duration
LookbackDurations == {4, 10}

Commands == {"start", "stop", "reset", "pause", "resume"}
AsrOutcomes == {"text", "empty", "error"}

Min(a, b) == IF a <= b THEN a ELSE b
Max(a, b) == IF a >= b THEN a ELSE b

\* int(duration * settings.audio_sample_rate)
DurToSamples(d) == (d * SampleRate) \div DurDen

\* samples / settings.audio_sample_rate >= duration
DurationAtLeast(samples, d) == samples * DurDen >= d * SampleRate
\* samples / settings.audio_sample_rate <= duration
DurationAtMost(samples, d) == samples * DurDen <= d * SampleRate
\* samples / settings.audio_sample_rate > duration
DurationOver(samples, d) == samples * DurDen > d * SampleRate

-----------------------------------------------------------------------------
(* AudioBuffer *)

\* AudioBuffer.append: the n samples numbered from `first` are added at the end
append(buf, first, n) == buf \o [i \in 1..n |-> first + i - 1]

\* AudioBuffer.extract_segment(start_index, duration), remove_extracted = False;
\* samples = NoneIdx stands for duration = None
extract_segment(buf, start_index, samples) ==
    IF samples = NoneIdx
    THEN SubSeq(buf, start_index + 1, Len(buf))
    ELSE SubSeq(buf, start_index + 1, Min(start_index + samples, Len(buf)))

\* AudioBuffer.trim_old_data(max_duration)
trim_old_data(buf, d) ==
    LET max_samples == DurToSamples(d) IN
    IF Len(buf) > max_samples
    THEN IF max_samples = 0 THEN buf   \* buffer[-0:] is the whole list
         ELSE SubSeq(buf, Len(buf) - max_samples + 1, Len(buf))
    ELSE buf

-----------------------------------------------------------------------------
(* The processor as a record, so that a handler's steps compose *)

P == [is_recording |-> is_recording, buffer |-> buffer,
      speech_start_index |-> speech_start_index,
      last_chunk_end_index |-> last_chunk_end_index,
      recent_chunks |-> recent_chunks, previous_results |-> previous_results,
      vad_is_speaking |-> vad_is_speaking, vad_silence_start |-> vad_silence_start,
      utt |-> utt, results |-> results, out |-> <<>>]

\* AudioSegment.__init__: the id is the millisecond clock at creation
AudioSegment(start_index, end_index, clock) ==
    [segment_id |-> clock, start_index |-> start_index, end_index |-> end_index]

\* StreamingProcessor._send_result
_send_result(p, r) ==
    [p EXCEPT !.out = Append(@, r), !.results = Append(@, r)]

\* seq[-n:]
LastN(seq, n) == SubSeq(seq, Max(1, Len(seq) - n + 1), Len(seq))

\* the prompt of _process_segment, ' '.join(self.previous_results[-2:]): the texts
\* it joins, taken before the transcription is awaited
prompt_of(p) == LastN(p.previous_results, 2)

\* the k last entries popped, one at a time, while the list is not empty
PopN(h, k) == SubSeq(h, 1, Max(0, Len(h) - k))

\* StreamingProcessor._process_segment, history update of the success branch
UpdateHistory(p, text, is_timeout_chunk, is_reprocessed, replaces_segments) ==
    IF ~is_timeout_chunk \/ p.recent_chunks = <<>>
    THEN LET popped == IF is_reprocessed /\ replaces_segments # <<>>
                       THEN PopN(p.previous_results, Len(replaces_segments))
                       ELSE p.previous_results
             added == IF text # 0 THEN Append(popped, text) ELSE popped
         IN IF text # 0 /\ Len(added) > HistoryCap THEN Tail(added) ELSE added
    ELSE p.previous_results

\* _process_segment with an error branch that treats the failure as an empty text
_process_segment_error_as_empty(p, segment, origin, is_timeout_chunk, is_reprocessed, replaces_segments, asr) ==
    _send_result(
        [p EXCEPT !.previous_results =
            UpdateHistory(p, IF asr = "text" THEN Len(p.results) + 1 ELSE 0,
                          is_timeout_chunk, is_reprocessed, replaces_segments)],
        [type |-> "result", segment_id |-> segment.segment_id,
         text |-> IF asr = "text" THEN Len(p.results) + 1 ELSE 0,
         is_final |-> ~is_timeout_chunk, is_timeout_chunk |-> is_timeout_chunk,
         is_reprocessed |-> is_reprocessed, replaces_segments |-> replaces_segments,
         meta_error |-> asr = "error",
         start_index |-> segment.start_index, end_index |-> segment.end_index,
         segment |-> segment, origin |-> origin, utt |-> p.utt,
             prompt |-> prompt_of(p)])

\* StreamingProcessor._process_segment: transcribe, update the history, send the
\* result.  text 0 is ""; a text is named by the position of its result.  `segment`,
\* `origin` and `utt` record the AudioSegment the result was built from, the method
\* that built it and the utterance it belongs to.
_process_segment(p, segment, origin, is_timeout_chunk, is_reprocessed, replaces_segments, asr) ==
    LET text == IF asr = "text" THEN Len(p.results) + 1 ELSE 0 IN
    IF asr # "error"
    THEN _send_result(
            [p EXCEPT !.previous_results =
                UpdateHistory(p, text, is_timeout_chunk, is_reprocessed, replaces_segments)],
            [type |-> "result", segment_id |-> segment.segment_id, text |-> text,
             is_final |-> ~is_timeout_chunk, is_timeout_chunk |-> is_timeout_chunk,
             is_reprocessed |-> is_reprocessed, replaces_segments |-> replaces_segments,
             meta_error |-> FALSE,
             start_index |-> segment.start_index, end_index |-> segment.end_index,
             segment |-> segment, origin |-> origin, utt |-> p.utt,
             prompt |-> prompt_of(p)])
    ELSE _send_result(p,
            [type |-> "result", segment_id |-> segment.segment_id, text |-> 0,
             is_final |-> ~is_timeout_chunk, is_timeout_chunk |-> FALSE,
             is_reprocessed |-> FALSE, replaces_segments |-> <<>>,
             meta_error |-> TRUE,
             start_index |-> NoneIdx, end_index |-> NoneIdx,
             segment |-> segment, origin |-> origin, utt |-> p.utt,
             prompt |-> prompt_of(p)])

-----------------------------------------------------------------------------
(* Segmentation controller *)

\* StreamingProcessor._reset_speech_state
_reset_speech_state(p) ==
    [p EXCEPT !.speech_start_index = NoneIdx, !.last_chunk_end_index = 0,
              !.recent_chunks = <<>>]

\* StreamingProcessor._should_process_timeout_chunk
_should_process_timeout_chunk(p, current_buffer_length) ==
    DurationAtLeast(current_buffer_length - p.last_chunk_end_index, max_segment_duration)

\* a chunk that takes all the audio since the last chunk
chunk_end_of_takes_all(chunk_start, current_buffer_length) == current_buffer_length

\* the chunk's end in _process_timeout_chunk
chunk_end_of(chunk_start, current_buffer_length) ==
    Min(chunk_start + DurToSamples(max_segment_duration), current_buffer_length)

\* "Keep only recent chunks" in _process_timeout_chunk
keep_recent(chunks) ==
    IF Len(chunks) > RecentChunksCap THEN Tail(chunks) ELSE chunks

\* StreamingProcessor._process_timeout_chunk
_process_timeout_chunk(p, current_buffer_length, clock, asr) ==
    LET chunk_start == p.last_chunk_end_index
        chunk_end == chunk_end_of(chunk_start, current_buffer_length)
        segment_audio == extract_segment(p.buffer, chunk_start,
                            IF chunk_end = current_buffer_length THEN NoneIdx
                            ELSE chunk_end - chunk_start)
        segment == AudioSegment(chunk_start, chunk_end, clock)
        q == _process_segment(p, segment, "timeout", TRUE, FALSE, <<>>, asr)
    IN IF segment_audio = <<>> THEN p
       ELSE [q EXCEPT !.recent_chunks = keep_recent(Append(@, segment)),
                      !.last_chunk_end_index = chunk_end]

\* the ids of the chunks after the first one
segment_ids_after_first(chunks) ==
    [i \in 1..(Len(chunks) - 1) |-> chunks[i + 1].segment_id]

\* the ids listed by _reprocess_speech_segment / _reprocess_with_lookback
segment_ids(chunks) == [i \in 1..Len(chunks) |-> chunks[i].segment_id]

\* StreamingProcessor._reprocess_speech_segment
_reprocess_speech_segment(p, current_buffer_length, clock, asr) ==
    LET start_index == IF p.speech_start_index = NoneIdx THEN 0 ELSE p.speech_start_index
        segment_audio == extract_segment(p.buffer, start_index, NoneIdx)
        segment == AudioSegment(start_index, current_buffer_length, clock)
    IN IF segment_audio = <<>> THEN p
       ELSE _process_segment(p, segment, "reprocess_all", FALSE, TRUE,
                             segment_ids(p.recent_chunks), asr)

\* lookback_start_index in _reprocess_with_lookback
lookback_start_index(p, current_buffer_length) ==
    Max(current_buffer_length - DurToSamples(lookback_duration),
        IF p.speech_start_index = NoneIdx THEN 0 ELSE p.speech_start_index)

\* the positions in recent_chunks of the chunks starting at or after index x
chunks_from(chunks, x) == {i \in 1..Len(chunks) : chunks[i].start_index >= x}

\* the "Find chunk boundary near lookback point" loop of _reprocess_with_lookback
reprocess_start_index(p, current_buffer_length) ==
    LET lsi == lookback_start_index(p, current_buffer_length)
        hit == chunks_from(p.recent_chunks, lsi)
    IN IF hit = {} THEN lsi
       ELSE p.recent_chunks[CHOOSE i \in hit : \A j \in hit : i <= j].start_index

\* every recent chunk replaced, whatever its start
chunks_to_replace_all(p, current_buffer_length) ==
    IF chunks_from(p.recent_chunks, lookback_start_index(p, current_buffer_length)) = {}
    THEN <<>> ELSE p.recent_chunks

\* chunks_to_replace in _reprocess_with_lookback
chunks_to_replace(p, current_buffer_length) ==
    LET lsi == lookback_start_index(p, current_buffer_length)
        rsi == reprocess_start_index(p, current_buffer_length)
    IN IF chunks_from(p.recent_chunks, lsi) = {} THEN <<>>
       ELSE SelectSeq(p.recent_chunks, LAMBDA c : c.start_index >= rsi)

\* StreamingProcessor._reprocess_with_lookback
_reprocess_with_lookback(p, current_buffer_length, clock, asr) ==
    LET rsi == reprocess_start_index(p, current_buffer_length)
        segment_audio == extract_segment(p.buffer, rsi, NoneIdx)
        segment == AudioSegment(rsi, current_buffer_length, clock)
    IN IF segment_audio = <<>> THEN p
       ELSE _process_segment(p, segment, "reprocess_lookback", FALSE, TRUE,
                segment_ids(chunks_to_replace(p, current_buffer_length)), asr)

\* a final segment cut from the start of the buffer instead of the utterance start
_process_final_segment_from_zero(p, current_buffer_length, clock, asr) ==
    LET segment_audio == extract_segment(p.buffer, 0, NoneIdx)
        segment == AudioSegment(0, current_buffer_length, clock)
    IN IF segment_audio = <<>> THEN p
       ELSE _process_segment(p, segment, "final", FALSE, FALSE, <<>>, asr)

\* StreamingProcessor._process_final_segment
_process_final_segment(p, current_buffer_length, clock, asr) ==
    LET start_index == IF p.speech_start_index = NoneIdx THEN 0 ELSE p.speech_start_index
        segment_audio == extract_segment(p.buffer, start_index, NoneIdx)
        segment == AudioSegment(start_index, current_buffer_length, clock)
    IN IF segment_audio = <<>> THEN p
       ELSE _process_segment(p, segment, "final", FALSE, FALSE, <<>>, asr)

\* every utterance counted as within the lookback
within_lookback_always(p, current_buffer_length) == TRUE

\* "speech_duration <= self.lookback_duration" in _process_speech_end
within_lookback(p, current_buffer_length) ==
    DurationAtMost(current_buffer_length - p.speech_start_index, lookback_duration)

\* StreamingProcessor._process_speech_end
_process_speech_end(p, current_buffer_length, clock, asr) ==
    IF p.speech_start_index = NoneIdx THEN p
    ELSE IF p.recent_chunks # <<>> /\ within_lookback(p, current_buffer_length)
         THEN _reprocess_speech_segment(p, current_buffer_length, clock, asr)
    ELSE IF p.recent_chunks # <<>>
         THEN _reprocess_with_lookback(p, current_buffer_length, clock, asr)
    ELSE _process_final_segment(p, current_buffer_length, clock, asr)

\* a clean-up that trims nothing
_cleanup_old_audio_keeps_all(p) == p

\* StreamingProcessor._cleanup_old_audio
_cleanup_old_audio(p) ==
    [p EXCEPT !.buffer = trim_old_data(@, max_segment_duration)]

\* a speech start that takes no audio from before the edge
speech_started_without_pre_roll(p, current_buffer_length) ==
    [p EXCEPT !.speech_start_index = current_buffer_length,
              !.last_chunk_end_index = current_buffer_length,
              !.recent_chunks = <<>>, !.utt = @ + 1]

\* the speech-start branch of _handle_vad_result
speech_started(p, current_buffer_length) ==
    LET lookback_samples == Min(Len(p.buffer), SampleRate \div 2)
        start == Max(0, current_buffer_length - lookback_samples)
    IN [p EXCEPT !.speech_start_index = start, !.last_chunk_end_index = start,
                 !.recent_chunks = <<>>, !.utt = @ + 1]

\* the timeout check and the idle clean-up that end _handle_vad_result
timeout_or_cleanup(p, vr, current_buffer_length, clock, asr) ==
    IF vr.is_speaking /\ p.speech_start_index # NoneIdx
       /\ _should_process_timeout_chunk(p, current_buffer_length)
    THEN _process_timeout_chunk(p, current_buffer_length, clock, asr)
    ELSE IF ~vr.is_speaking /\ DurationOver(Len(p.buffer), 2 * max_segment_duration)
         THEN _cleanup_old_audio(p)
    ELSE p

\* StreamingProcessor._handle_vad_result
_handle_vad_result(p, vr, clock, asr) ==
    LET current_buffer_length == Len(p.buffer) IN
    IF vr.state_changed /\ vr.is_speaking
    THEN timeout_or_cleanup(speech_started(p, current_buffer_length), vr,
                            current_buffer_length, clock, asr)
    ELSE IF vr.state_changed /\ p.speech_start_index # NoneIdx
         THEN _reset_speech_state(_process_speech_end(p, current_buffer_length, clock, asr))
    ELSE timeout_or_cleanup(p, vr, current_buffer_length, clock, asr)

-----------------------------------------------------------------------------
(* VADProcessor *)

\* a VADProcessor.process that keeps silence_start when speech starts
vad_process_keeps_silence_start(p, flag, clock) ==
    LET state_changed == flag # p.vad_is_speaking IN
    [p |-> [p EXCEPT !.vad_is_speaking = flag,
                     !.vad_silence_start = IF state_changed /\ ~flag THEN clock ELSE @],
     vr |-> [is_speaking |-> flag, state_changed |-> state_changed]]

\* VADProcessor.process: the state-change bookkeeping around the classifier's flag
vad_process(p, flag, clock) ==
    LET state_changed == flag # p.vad_is_speaking IN
    [p |-> [p EXCEPT !.vad_is_speaking = flag,
                     !.vad_silence_start = IF state_changed
                                           THEN IF flag THEN NoneIdx ELSE clock
                                           ELSE @],
     vr |-> [is_speaking |-> flag, state_changed |-> state_changed]]

\* a VADProcessor.reset that resets nothing
vad_reset_keeps_state(p) == p

\* VADProcessor.reset
vad_reset(p) ==
    [p EXCEPT !.vad_is_speaking = FALSE, !.vad_silence_start = NoneIdx]

-----------------------------------------------------------------------------
(* StreamingProcessor: the session's operations *)

\* StreamingManager.send_error
error_message(error_code) ==
    [type |-> "error", error_code |-> error_code,
     recoverable |-> error_code \notin {"CONFIGURATION_ERROR", "CLIENT_NOT_CONFIGURED"}]

\* StreamingProcessor._send_vad_status: builds the VADStatus snapshot, then the
\* StreamingStatus message.  processor.py imports VADStatus but not StreamingStatus,
\* so with the name unbound the call raises NameError before anything is sent.
_send_vad_status(p, vr, name_bound) ==
    IF name_bound
    THEN [raised |-> FALSE,
          p |-> [p EXCEPT !.out = Append(@, [type |-> "status", status |-> "processing",
                                              vad_state |-> vr])]]
    ELSE [raised |-> TRUE, p |-> p]

\* process_audio without its is_recording check
process_audio_ignores_recording(p, n, flag, asr, clock, name_bound) ==
    IF processor \notin {"ready", "test_failed"}
    THEN [p EXCEPT !.out = Append(@, error_message("AUDIO_PROCESSING_ERROR"))]
    ELSE LET p1 == [p EXCEPT !.buffer = append(@, appended, n)]
             v == vad_process(p1, flag, clock)
             st == _send_vad_status(v.p, v.vr, name_bound)
         IN IF st.raised
            THEN [st.p EXCEPT !.out = Append(@, error_message("AUDIO_PROCESSING_ERROR"))]
            ELSE _handle_vad_result(st.p, v.vr, clock, asr)

\* StreamingProcessor.process_audio with StreamingManager._handle_audio_message's
\* handling of what it raises
process_audio(p, n, flag, asr, clock, name_bound) ==
    IF processor \notin {"ready", "test_failed"}
    THEN [p EXCEPT !.out = Append(@, error_message("AUDIO_PROCESSING_ERROR"))]
    ELSE IF ~p.is_recording THEN p
    ELSE LET p1 == [p EXCEPT !.buffer = append(@, appended, n)]
             v == vad_process(p1, flag, clock)
             st == _send_vad_status(v.p, v.vr, name_bound)
         IN IF st.raised
            THEN [st.p EXCEPT !.out = Append(@, error_message("AUDIO_PROCESSING_ERROR"))]
            ELSE _handle_vad_result(st.p, v.vr, clock, asr)

\* handle_control with a pause that also resets the speech state
handle_control_pause_resets(p, command, clock, asr) ==
    IF command = "pause" THEN _reset_speech_state([p EXCEPT !.is_recording = FALSE])
    ELSE IF command = "resume" THEN [p EXCEPT !.is_recording = TRUE]
    ELSE IF command = "start" THEN _reset_speech_state([p EXCEPT !.is_recording = TRUE])
    ELSE IF command = "stop"
         THEN _reset_speech_state(
                  _process_speech_end([p EXCEPT !.is_recording = FALSE],
                                      Len(p.buffer), clock, asr))
    ELSE vad_reset([_reset_speech_state(p) EXCEPT !.is_recording = FALSE,
                                                  !.buffer = <<>>,
                                                  !.previous_results = <<>>])

\* handle_control with a stop that drops the utterance in progress
handle_control_stop_drops(p, command, clock, asr) ==
    CASE command \in {"start", "resume"} ->
            IF command = "start"
            THEN _reset_speech_state([p EXCEPT !.is_recording = TRUE])
            ELSE [p EXCEPT !.is_recording = TRUE]
      [] command = "stop" -> _reset_speech_state([p EXCEPT !.is_recording = FALSE])
      [] command = "reset" ->
            vad_reset([_reset_speech_state(p) EXCEPT !.is_recording = FALSE,
                                                     !.buffer = <<>>,
                                                     !.previous_results = <<>>])
      [] command = "pause" -> [p EXCEPT !.is_recording = FALSE]

\* StreamingProcessor.handle_control
handle_control(p, command, clock, asr) ==
    CASE command = "start" ->
            _reset_speech_state([p EXCEPT !.is_recording = TRUE])
      [] command = "stop" ->
            _reset_speech_state(
                _process_speech_end([p EXCEPT !.is_recording = FALSE],
                                    Len(p.buffer), clock, asr))
      [] command = "reset" ->
            vad_reset([_reset_speech_state(p) EXCEPT !.is_recording = FALSE,
                                                     !.buffer = <<>>,
                                                     !.previous_results = <<>>])
      [] command = "pause" -> [p EXCEPT !.is_recording = FALSE]
      [] command = "resume" -> [p EXCEPT !.is_recording = TRUE]

\* a StreamingProcessor as __init__ and initialize() leave it
NewProcessor(p) ==
    [p EXCEPT !.is_recording = FALSE, !.buffer = <<>>, !.speech_start_index = NoneIdx,
              !.last_chunk_end_index = 0, !.recent_chunks = <<>>,
              !.previous_results = <<>>, !.vad_is_speaking = FALSE,
              !.vad_silence_start = NoneIdx]

\* the processor's fields take the values of record q
Assign(q) ==
    /\ is_recording' = q.is_recording
    /\ buffer' = q.buffer
    /\ speech_start_index' = q.speech_start_index
    /\ last_chunk_end_index' = q.last_chunk_end_index
    /\ recent_chunks' = q.recent_chunks
    /\ previous_results' = q.previous_results
    /\ vad_is_speaking' = q.vad_is_speaking
    /\ vad_silence_start' = q.vad_silence_start
    /\ utt' = q.utt
    /\ results' = q.results
    /\ sent' = q.out

-----------------------------------------------------------------------------
(* StreamingManager.process_message: one action per inbound message type *)

Message(type, command, n, flag) ==
    [type |-> type, command |-> command, n |-> n, flag |-> flag]

\* the handlers that call time.time(): process_audio once it is recording, and a
\* stop that ends an utterance (AudioSegment.__init__); the clock is observed there
ReadsClockOnAudio == processor \in {"ready", "test_failed"} /\ is_recording
ReadsClockOnControl(command) ==
    processor # "none" /\ command = "stop" /\ speech_start_index # NoneIdx

\* _handle_config_message answering ready whatever initialize() did
config_reply_always_ready(outcome) ==
    [type |-> "status", status |-> "ready"]

\* what _handle_config_message sends: the ready status once initialize() has
\* returned, CONFIGURATION_ERROR when it raised (no api key, or the provider's
\* test_connection failed)
config_reply(outcome) ==
    IF outcome = "ready"
    THEN [type |-> "status", status |-> "ready"]
    ELSE error_message("CONFIGURATION_ERROR")

\* StreamingManager._handle_config_message
HandleConfig(outcome, chunk_duration) ==
    /\ n_configs < MaxConfigs
    /\ n_configs' = n_configs + 1
    /\ processor' = outcome
    /\ max_segment_duration' = chunk_duration
    /\ Assign([NewProcessor(P) EXCEPT !.out = <<config_reply(outcome)>>])
    /\ last_msg' = Message("config", outcome, 0, FALSE)
    /\ UNCHANGED <<lookback_duration, now, appended, status_name_bound, n_controls>>
    /\ UNCHANGED suspension_vars
    /\ UNCHANGED manager_vars
    /\ UNCHANGED standalone_vars

\* StreamingManager._handle_control_message
HandleControl(command, asr, dt) ==
    /\ n_controls < MaxControls
    /\ now + dt <= MaxClock
    /\ dt # 0 => ReadsClockOnControl(command)
    /\ n_controls' = n_controls + 1
    /\ now' = now + dt
    /\ IF processor = "none"
       THEN Assign([P EXCEPT !.out = <<error_message("CLIENT_NOT_CONFIGURED")>>])
       ELSE Assign(handle_control(P, command, now', asr))
    /\ last_msg' = Message("control", command, 0, FALSE)
    /\ UNCHANGED <<processor, max_segment_duration, lookback_duration, appended,
                   status_name_bound, n_configs>>
    /\ UNCHANGED suspension_vars
    /\ UNCHANGED manager_vars
    /\ UNCHANGED standalone_vars

\* StreamingManager._handle_audio_message
HandleAudio(n, flag, asr, dt) ==
    /\ appended + n <= MaxSamples
    /\ now + dt <= MaxClock
    /\ dt # 0 => ReadsClockOnAudio
    /\ appended' = appended + n
    /\ now' = now + dt
    /\ IF processor = "none"
       THEN Assign([P EXCEPT !.out = <<error_message("CLIENT_NOT_CONFIGURED")>>])
       ELSE Assign(process_audio(P, n, flag, asr, now', status_name_bound))
    /\ last_msg' = Message("audio", "", n, flag)
    /\ UNCHANGED <<processor, max_segment_duration, lookback_duration,
                   status_name_bound, n_controls, n_configs>>
    /\ UNCHANGED suspension_vars
    /\ UNCHANGED manager_vars
    /\ UNCHANGED standalone_vars

\* no handler is suspended, nothing is queued, nothing was sent
NoCall == [kind |-> "none"]
NoSuspension ==
    /\ calls = [ws |-> NoCall, rest |-> NoCall]
    /\ inbox = <<>>
    /\ wire = <<>>
    /\ n_pushes = 0

\* StreamingManager.__init__, with no connection opened yet
NoManager ==
    /\ clients = {}
    /\ total_connections = 0
    /\ _lock = NoneIdx
    /\ conn = [c \in Conns |-> "new"]
    /\ configured = {}
    /\ cleaned = {}
    /\ outbox = [c \in Conns |-> <<>>]
    /\ teardown = "idle"
    /\ todo = {}
    /\ last_activity = [c \in Conns |-> 0]
    /\ wall_time = 0

\* AudioBuffer.__init__
NoBuffer ==
    /\ ab_buffer = <<>>
    /\ ab_count = 0
    /\ ab_call = [op |-> "__init__"]

\* VADProcessor.__init__
NewVAD == [vad_is_speaking |-> FALSE, vad_silence_start |-> NoneIdx, vad_buffer |-> <<>>]

\* no connection drives a VADProcessor yet
NoEndpoint ==
    /\ vad_processors = [o \in VadObjects |-> NewVAD]
    /\ vad_conns = [c \in VadConns |-> [state |-> "new", endpoint |-> "", buffer |-> 0]]
    /\ vad_call = [conn |-> 0, op |-> "__init__"]
    /\ vad_clock = 1

\* nothing outside the session and its manager has run
NoStandalone == NoBuffer /\ NoEndpoint

\* the state after StreamingManager.add_client: a client without a processor
InitSession ==
    /\ processor = "none"
    /\ max_segment_duration \in ChunkDurations
    /\ lookback_duration \in LookbackDurations
    /\ is_recording = FALSE
    /\ buffer = <<>>
    /\ speech_start_index = NoneIdx
    /\ last_chunk_end_index = 0
    /\ recent_chunks = <<>>
    /\ previous_results = <<>>
    /\ vad_is_speaking = FALSE
    /\ vad_silence_start = NoneIdx
    /\ now = 1
    /\ appended = 0
    /\ utt = 0
    /\ results = <<>>
    /\ sent = <<>>
    /\ last_msg = Message("none", "", 0, FALSE)
    /\ n_controls = 0
    /\ n_configs = 0
    /\ NoSuspension
    /\ NoManager
    /\ NoStandalone

\* the source as shipped: StreamingStatus is not imported by processor.py
Init == InitSession /\ status_name_bound = FALSE /\ use_real_vad = FALSE

\* a session that was configured with success and told to start, with the name
\* StreamingStatus supplied to processor.py, which lets process_audio reach the
\* segmentation controller
InitController ==
    /\ processor = "ready"
    /\ max_segment_duration \in ChunkDurations
    /\ lookback_duration \in LookbackDurations
    /\ is_recording = TRUE
    /\ buffer = <<>>
    /\ speech_start_index = NoneIdx
    /\ last_chunk_end_index = 0
    /\ recent_chunks = <<>>
    /\ previous_results = <<>>
    /\ vad_is_speaking = FALSE
    /\ vad_silence_start = NoneIdx
    /\ now = 1
    /\ appended = 0
    /\ utt = 0
    /\ results = <<>>
    /\ sent = <<>>
    /\ last_msg = Message("control", "start", 0, FALSE)
    /\ n_controls = 1
    /\ n_configs = 1
    /\ status_name_bound = TRUE
    /\ use_real_vad = FALSE
    /\ NoSuspension
    /\ NoManager
    /\ NoStandalone

Next ==
    \/ \E outcome \in {"ready", "no_key", "test_failed"}, d \in ChunkDurations :
          HandleConfig(outcome, d)
    \/ \E command \in Commands, asr \in AsrOutcomes, dt \in 0..1 :
          HandleControl(command, asr, dt)
    \/ \E n \in 1..MaxPush, flag \in BOOLEAN, asr \in AsrOutcomes, dt \in 0..1 :
          HandleAudio(n, flag, asr, dt)

Spec == Init /\ [][Next]_vars

\* the controller reads a transcription's outcome only as "raised ASRServiceError or
\* not"; an empty text differs from a text in the history alone
NextController ==
    \/ \E command \in Commands, asr \in {"text", "error"}, dt \in 0..1 :
          HandleControl(command, asr, dt)
    \/ \E n \in 1..MaxPush, flag \in BOOLEAN, asr \in {"text", "error"}, dt \in 0..1 :
          HandleAudio(n, flag, asr, dt)

SpecController == InitController /\ [][NextController]_vars

-----------------------------------------------------------------------------
(* The handlers with the transcription as a suspension point.  A handler runs up
   to "await self.asr_provider.transcribe(...)" and is suspended; what follows the
   await runs on the processor as it is when the response arrives.  The websocket
   loop awaits process_message before it receives the next message, so pushes wait
   in the transport meanwhile; send_control_command runs handle_control in the
   task of the REST request, whatever the websocket task is doing. *)

\* the call _process_timeout_chunk is about to await, if it gets that far
call_timeout_chunk(p, current_buffer_length, clock) ==
    LET chunk_start == p.last_chunk_end_index
        chunk_end == chunk_end_of(chunk_start, current_buffer_length)
        segment_audio == extract_segment(p.buffer, chunk_start,
                            IF chunk_end = current_buffer_length THEN NoneIdx
                            ELSE chunk_end - chunk_start)
    IN IF segment_audio = <<>> THEN NoCall
       ELSE [kind |-> "timeout", segment |-> AudioSegment(chunk_start, chunk_end, clock),
             origin |-> "timeout", is_timeout_chunk |-> TRUE, is_reprocessed |-> FALSE,
             replaces_segments |-> <<>>, prompt |-> prompt_of(p)]

\* the call _process_speech_end is about to await, if it gets that far
call_speech_end(p, current_buffer_length, clock) ==
    LET whole == p.recent_chunks # <<>> /\ within_lookback(p, current_buffer_length)
        start_index ==
            IF p.recent_chunks # <<>> /\ ~whole
            THEN reprocess_start_index(p, current_buffer_length)
            ELSE IF p.speech_start_index = NoneIdx THEN 0 ELSE p.speech_start_index
        segment_audio == extract_segment(p.buffer, start_index, NoneIdx)
    IN IF p.speech_start_index = NoneIdx \/ segment_audio = <<>> THEN NoCall
       ELSE [kind |-> "end",
             segment |-> AudioSegment(start_index, current_buffer_length, clock),
             origin |-> IF whole THEN "reprocess_all"
                        ELSE IF p.recent_chunks # <<>> THEN "reprocess_lookback"
                        ELSE "final",
             is_timeout_chunk |-> FALSE, is_reprocessed |-> p.recent_chunks # <<>>,
             replaces_segments |->
                IF whole THEN segment_ids(p.recent_chunks)
                ELSE IF p.recent_chunks # <<>>
                     THEN segment_ids(chunks_to_replace(p, current_buffer_length))
                     ELSE <<>>,
             prompt |-> prompt_of(p)]

\* _handle_vad_result up to its await
begin_vad_result(p, vr, clock) ==
    LET current_buffer_length == Len(p.buffer)
        p1 == IF vr.state_changed /\ vr.is_speaking
              THEN speech_started(p, current_buffer_length) ELSE p
        ends == vr.state_changed /\ ~vr.is_speaking /\ p.speech_start_index # NoneIdx
        due == /\ vr.is_speaking /\ p1.speech_start_index # NoneIdx
               /\ _should_process_timeout_chunk(p1, current_buffer_length)
        c == IF ends THEN call_speech_end(p1, current_buffer_length, clock)
             ELSE IF due THEN call_timeout_chunk(p1, current_buffer_length, clock)
             ELSE NoCall
    IN IF c.kind # "none" THEN [p |-> p1, call |-> c]
       ELSE IF ends THEN [p |-> _reset_speech_state(p1), call |-> NoCall]
       ELSE IF ~due /\ ~vr.is_speaking
                    /\ DurationOver(Len(p1.buffer), 2 * max_segment_duration)
            THEN [p |-> _cleanup_old_audio(p1), call |-> NoCall]
       ELSE [p |-> p1, call |-> NoCall]

\* process_audio up to its await
begin_audio(p, first, n, flag, clock, name_bound) ==
    IF processor \notin {"ready", "test_failed"}
    THEN [p |-> [p EXCEPT !.out = Append(@, error_message("AUDIO_PROCESSING_ERROR"))],
          call |-> NoCall]
    ELSE IF ~p.is_recording THEN [p |-> p, call |-> NoCall]
    ELSE LET p1 == [p EXCEPT !.buffer = append(@, first, n)]
             v == vad_process(p1, flag, clock)
             st == _send_vad_status(v.p, v.vr, name_bound)
         IN IF st.raised
            THEN [p |-> [st.p EXCEPT !.out =
                            Append(@, error_message("AUDIO_PROCESSING_ERROR"))],
                  call |-> NoCall]
            ELSE begin_vad_result(st.p, v.vr, clock)

\* handle_control up to its await
begin_control(p, command, clock) ==
    IF command = "stop"
    THEN LET p1 == [p EXCEPT !.is_recording = FALSE]
             c == call_speech_end(p1, Len(p1.buffer), clock)
         IN IF c.kind # "none" THEN [p |-> p1, call |-> c]
            ELSE [p |-> _reset_speech_state(p1), call |-> NoCall]
    ELSE [p |-> handle_control(p, command, clock, "text"), call |-> NoCall]

\* what follows the await: the rest of _process_segment, with the prompt that was
\* built before the await, then the rest of its caller
resume(p, c, asr) ==
    LET q0 == _process_segment(p, c.segment, c.origin, c.is_timeout_chunk,
                               c.is_reprocessed, c.replaces_segments, asr)
        q == [q0 EXCEPT !.results[Len(q0.results)].prompt = c.prompt,
                        !.out[Len(q0.out)].prompt = c.prompt]
    IN IF c.kind = "timeout"
       THEN [q EXCEPT !.recent_chunks = keep_recent(Append(@, c.segment)),
                      !.last_chunk_end_index = c.segment.end_index]
       ELSE _reset_speech_state(q)

\* the outbound messages of one handler step, each with the inbound message that
\* caused it: the ordinal of the audio push (0 for a control command), the push's
\* size and flag, and the push whose transcription was in flight when it arrived
Caused(msgs, cause, n, flag, during) ==
    [i \in 1..Len(msgs) |->
        [type |-> msgs[i].type,
         origin |-> IF msgs[i].type = "result" THEN msgs[i].origin ELSE "",
         cause |-> cause, n |-> n, flag |-> flag, during |-> during]]

\* the suspended call of a handler, with what the handler was started for
Suspended(c, cause, during) ==
    IF c.kind = "none" THEN NoCall
    ELSE [kind |-> c.kind, segment |-> c.segment, origin |-> c.origin,
          is_timeout_chunk |-> c.is_timeout_chunk, is_reprocessed |-> c.is_reprocessed,
          replaces_segments |-> c.replaces_segments, prompt |-> c.prompt,
          utt |-> utt', cause |-> cause, during |-> during, stale |-> FALSE]

\* the websocket task handles one audio push, up to its await or to its end
HandlePush(k, first, n, flag, during, dt) ==
    /\ now + dt <= MaxClock
    /\ dt # 0 => ReadsClockOnAudio
    /\ now' = now + dt
    /\ LET b == begin_audio(P, first, n, flag, now', status_name_bound)
       IN /\ Assign(b.p)
          /\ calls' = [calls EXCEPT !.ws = Suspended(b.call, k, during)]
          /\ wire' = wire \o Caused(b.p.out, k, n, flag, during)
    /\ last_msg' = Message("audio", "", n, flag)
    /\ UNCHANGED <<processor, max_segment_duration, lookback_duration,
                   status_name_bound, n_controls, n_configs>>
    /\ UNCHANGED manager_vars
    /\ UNCHANGED standalone_vars

\* streaming_websocket's loop: a push received while the task waits in receive_text
WsAudio(n, flag, dt) ==
    /\ calls.ws.kind = "none" /\ inbox = <<>>
    /\ appended + n <= MaxFlightSamples
    /\ HandlePush(n_pushes + 1, appended, n, flag, 0, dt)
    /\ appended' = appended + n
    /\ n_pushes' = n_pushes + 1
    /\ UNCHANGED inbox

\* a push reaches the transport while the websocket task awaits a transcription
Arrive(n, flag) ==
    /\ calls.ws.kind # "none" /\ Len(inbox) < MaxInbox
    /\ appended + n <= MaxFlightSamples
    /\ inbox' = Append(inbox, [k |-> n_pushes + 1, first |-> appended, n |-> n,
                               flag |-> flag, during |-> calls.ws.cause])
    /\ appended' = appended + n
    /\ n_pushes' = n_pushes + 1
    /\ UNCHANGED <<processor, max_segment_duration, lookback_duration, is_recording,
                   buffer, speech_start_index, last_chunk_end_index, recent_chunks,
                   previous_results, vad_is_speaking, vad_silence_start, now, utt,
                   results, sent, last_msg, status_name_bound, n_controls, n_configs,
                   calls, wire>>
    /\ UNCHANGED manager_vars
    /\ UNCHANGED standalone_vars

\* websocket.receive_text when pushes wait in the transport: the newest one, which
\* the transport never delivers first
receive_text_newest(q) ==
    [message |-> q[Len(q)], rest |-> SubSeq(q, 1, Len(q) - 1)]

\* websocket.receive_text when pushes wait in the transport: the oldest one
receive_text(q) ==
    [message |-> Head(q), rest |-> Tail(q)]

\* streaming_websocket's loop: the next receive_text returns a waiting push
WsDequeue(dt) ==
    /\ calls.ws.kind = "none" /\ inbox # <<>>
    /\ LET r == receive_text(inbox)
       IN /\ HandlePush(r.message.k, r.message.first, r.message.n, r.message.flag,
                        r.message.during, dt)
          /\ inbox' = r.rest
    /\ UNCHANGED <<appended, n_pushes>>

\* StreamingManager.send_control_command, called by the REST endpoint
\* streaming_control: handle_control up to its await or to its end
RestControl(command, dt) ==
    /\ calls.rest.kind = "none"
    /\ processor # "none"
    /\ n_controls < MaxControls
    /\ now + dt <= MaxClock
    /\ dt # 0 => ReadsClockOnControl(command)
    /\ n_controls' = n_controls + 1
    /\ now' = now + dt
    /\ LET b == begin_control(P, command, now')
       IN /\ Assign(b.p)
          /\ calls' = [ws |-> IF calls.ws.kind # "none" /\ command \in {"stop", "reset"}
                              THEN [calls.ws EXCEPT !.stale = TRUE] ELSE calls.ws,
                       rest |-> Suspended(b.call, 0, 0)]
          /\ wire' = wire \o Caused(b.p.out, 0, 0, FALSE, 0)
    /\ last_msg' = Message("control", command, 0, FALSE)
    /\ UNCHANGED <<processor, max_segment_duration, lookback_duration, appended,
                   status_name_bound, n_configs, inbox, n_pushes>>
    /\ UNCHANGED manager_vars
    /\ UNCHANGED standalone_vars

\* the transcription a task awaits returns or raises, and the task runs on
Complete(task, asr) ==
    /\ calls[task].kind # "none"
    /\ LET c == calls[task]
           q == resume([P EXCEPT !.utt = c.utt], c, asr)
       IN /\ Assign([q EXCEPT !.utt = utt])
          /\ wire' = wire \o Caused(q.out, c.cause, 0, FALSE, c.during)
    /\ calls' = [calls EXCEPT ![task] = NoCall]
    /\ last_msg' = Message("completion", task, 0, FALSE)
    /\ UNCHANGED <<processor, max_segment_duration, lookback_duration, now, appended,
                   status_name_bound, n_controls, n_configs, inbox, n_pushes>>
    /\ UNCHANGED manager_vars
    /\ UNCHANGED standalone_vars

NextInFlight ==
    \/ \E n \in 1..MaxPush, flag \in BOOLEAN, dt \in 0..1 : WsAudio(n, flag, dt)
    \/ \E n \in 1..MaxPush, flag \in BOOLEAN : Arrive(n, flag)
    \/ \E dt \in 0..1 : WsDequeue(dt)
    \/ \E command \in Commands, dt \in 0..1 : RestControl(command, dt)
    \/ \E task \in {"ws", "rest"}, asr \in {"text", "error"} : Complete(task, asr)

\* a session configured with success and told to start, with the transcription as
\* a suspension point of its handlers
SpecInFlight == InitController /\ [][NextInFlight]_vars

\* a handler that is resumed at once does what the handler without suspension does
SuspensionAgrees ==
    /\ \A n \in 1..MaxPush, flag \in BOOLEAN, asr \in {"text", "error"} :
          LET b == begin_audio(P, appended, n, flag, now, status_name_bound)
          IN process_audio(P, n, flag, asr, now, status_name_bound)
               = IF b.call.kind = "none" THEN b.p ELSE resume(b.p, b.call, asr)
    /\ \A command \in Commands, asr \in {"text", "error"} :
          LET b == begin_control(P, command, now)
          IN handle_control(P, command, now, asr)
               = IF b.call.kind = "none" THEN b.p ELSE resume(b.p, b.call, asr)

-----------------------------------------------------------------------------
(* StreamingManager: the session map, under the tasks of the event loop.  A task
   runs from one await that suspends to the next; asyncio.Lock.acquire does not
   suspend when the lock is free, and processor.cleanup() awaits nothing. *)

\* add_client's limit check with no limit
at_capacity_never(registered) == FALSE

\* add_client: len(self.clients) >= settings.streaming_max_clients
at_capacity(registered) == Cardinality(registered) >= streaming_max_clients

\* streaming_websocket up to its message loop: accept, then add_client under the
\* lock.  When add_client raises, the endpoint logs the exception and returns.
AddClient(c) ==
    /\ conn[c] = "new"
    /\ _lock = NoneIdx
    /\ IF at_capacity(clients)
       THEN /\ conn' = [conn EXCEPT ![c] = "refused"]
            /\ UNCHANGED <<clients, total_connections, last_activity>>
       ELSE /\ conn' = [conn EXCEPT ![c] = "loop"]
            /\ clients' = clients \cup {c}
            /\ total_connections' = total_connections + 1
            /\ last_activity' = [last_activity EXCEPT ![c] = wall_time]
    /\ UNCHANGED <<_lock, configured, cleaned, outbox, teardown, todo, wall_time>>
    /\ UNCHANGED session_vars
    /\ UNCHANGED standalone_vars

\* _handle_config_message for a registered client: the processor is created, then
\* initialized; ready or CONFIGURATION_ERROR is sent
ConfigMessage(c, outcome) ==
    /\ conn[c] = "loop" /\ c \in clients
    /\ Len(outbox[c]) < MaxConfigs
    /\ configured' = configured \cup {c}
    /\ outbox' = [outbox EXCEPT ![c] = Append(@, config_reply(outcome))]
    /\ last_activity' = [last_activity EXCEPT ![c] = wall_time]
    /\ UNCHANGED <<clients, total_connections, _lock, conn, cleaned, teardown, todo,
                   wall_time>>
    /\ UNCHANGED session_vars
    /\ UNCHANGED standalone_vars

\* remove_client(client_id) under the lock, called by a websocket task from its
\* finally clause or by the cleanup task for each id of its list
RemoveClient(caller, client_id) ==
    /\ _lock = NoneIdx
    /\ IF caller = CleanupTask
       THEN teardown = "removing" /\ client_id \in todo
       ELSE conn[caller] = "loop" /\ client_id = caller
    /\ clients' = clients \ {client_id}
    /\ configured' = configured \ {client_id}
    /\ cleaned' = IF client_id \in clients /\ client_id \in configured
                  THEN cleaned \cup {client_id} ELSE cleaned
    /\ IF caller = CleanupTask
       THEN /\ todo' = todo \ {client_id}
            /\ teardown' = IF todo' = {} THEN "done" ELSE "removing"
            /\ conn' = conn
       ELSE /\ conn' = [conn EXCEPT ![caller] = "closed"]
            /\ UNCHANGED <<teardown, todo>>
    /\ UNCHANGED <<total_connections, _lock, outbox, last_activity, wall_time>>
    /\ UNCHANGED session_vars
    /\ UNCHANGED standalone_vars

\* StreamingManager.cleanup: takes the lock, lists the client ids, and calls
\* remove_client for each of them while it holds the lock
Cleanup ==
    /\ teardown = "idle"
    /\ _lock = NoneIdx
    /\ todo' = clients
    /\ teardown' = IF clients = {} THEN "done" ELSE "removing"
    /\ _lock' = IF clients = {} THEN NoneIdx ELSE CleanupTask
    /\ UNCHANGED <<clients, total_connections, conn, configured, cleaned, outbox,
                   last_activity, wall_time>>
    /\ UNCHANGED session_vars
    /\ UNCHANGED standalone_vars

NextManager ==
    \/ \E c \in Conns : AddClient(c)
    \/ \E c \in Conns, outcome \in {"ready", "test_failed"} : ConfigMessage(c, outcome)
    \/ \E caller \in Conns \cup {CleanupTask}, client_id \in Conns :
          RemoveClient(caller, client_id)
    \/ Cleanup

\* the manager with MaxConns websocket connections and one call of cleanup
SpecManager == Init /\ [][NextManager]_vars

\* the event loop runs every task that can run
SpecManagerFair == SpecManager /\ WF_vars(NextManager)

\* time.time() moves on while every task of the event loop is suspended
Tick ==
    /\ wall_time < MaxTime
    /\ wall_time' = wall_time + 1
    /\ UNCHANGED <<clients, total_connections, _lock, conn, configured, cleaned,
                   outbox, teardown, todo, last_activity>>
    /\ UNCHANGED session_vars
    /\ UNCHANGED standalone_vars

\* one connection more than settings.streaming_max_clients admits
IdleConns == 1..(streaming_max_clients + 1)

NextManagerIdle ==
    \/ \E c \in IdleConns : AddClient(c)
    \/ \E c \in IdleConns, outcome \in {"ready", "test_failed"} :
          ConfigMessage(c, outcome)
    \/ \E caller \in IdleConns \cup {CleanupTask}, client_id \in IdleConns :
          RemoveClient(caller, client_id)
    \/ Cleanup
    \/ Tick

\* one session configuration is enough: the manager reads none of it
InitManagerIdle ==
    /\ Init
    /\ \A d \in ChunkDurations : max_segment_duration <= d
    /\ \A d \in LookbackDurations : lookback_duration <= d

\* the steps the server takes with no message from a client: the cleanup task,
\* once started, goes on through its list
ServerStep == \E client_id \in IdleConns : RemoveClient(CleanupTask, client_id)

\* the manager under passing time.  A websocket task waits in receive_text() until
\* its client sends or disconnects, and cleanup() runs when the application shuts
\* down: only time and the steps of a started cleanup are sure to happen.
SpecManagerIdle ==
    InitManagerIdle /\ [][NextManagerIdle]_vars /\ WF_vars(Tick) /\ WF_vars(ServerStep)

-----------------------------------------------------------------------------
(* An AudioBuffer called directly, as tests/unit/test_audio_buffer.py calls it.
   A sample value x is the integer x * Full; a stored sample keeps, next to its
   value, the number of samples the buffer had stored before it (`at`), which
   names the sample and is the index it was appended at. *)

\* the audio_data arguments of append: a list, a numpy array, or a str
Containers == {"list", "ndarray", "str"}

\* the elements of an audio_data argument: a number below [-1.0, 1.0], zero, a
\* number inside, a number above, and one element that is not a number
Numbers == {[numeric |-> TRUE, x |-> v] : v \in {-(Full + 1), 0, 1, Full + 1}}
NotANumber == [numeric |-> FALSE, x |-> 0]

RECURSIVE SeqsUpTo(_, _)
\* the sequences over S of length at most n
SeqsUpTo(S, n) ==
    IF n = 0 THEN {<<>>}
    ELSE LET shorter == SeqsUpTo(S, n - 1)
         IN shorter \cup {Append(xs, x) : xs \in {ys \in shorter : Len(ys) = n - 1},
                                          x \in S}

\* the audio_data arguments: an array holds numbers only, the str is "invalid"
AudioData(kind) ==
    CASE kind = "list" -> SeqsUpTo(Numbers \cup {NotANumber}, MaxPush)
      [] kind = "ndarray" -> SeqsUpTo(Numbers, MaxPush)
      [] kind = "str" -> {<<>>}

\* max(-1.0, min(1.0, float(sample)))
clip(x) == Max(-Full, Min(Full, x))

\* `not audio_data` at the head of append: a list or str is false when empty; a
\* numpy array of one element has the truth value of the element, one of more
\* elements raises ValueError, and an empty one is false or raises ValueError
\* with the numpy release (empty_raises)
not_audio_data(kind, xs, empty_raises) ==
    CASE kind = "list" -> IF xs = <<>> THEN "true" ELSE "false"
      [] kind = "str" -> "false"
      [] kind = "ndarray" ->
            IF Len(xs) = 0 THEN IF empty_raises THEN "ValueError" ELSE "true"
            ELSE IF Len(xs) = 1 THEN IF xs[1].x = 0 THEN "true" ELSE "false"
            ELSE "ValueError"

\* AudioBuffer.append
AudioBuffer_append(buf, count, kind, xs, empty_raises) ==
    LET empty == not_audio_data(kind, xs, empty_raises) IN
    IF empty = "ValueError" THEN [raised |-> "ValueError", buffer |-> buf]
    ELSE IF empty = "true" THEN [raised |-> "", buffer |-> buf]
    ELSE IF kind \notin {"list", "ndarray"}
         THEN [raised |-> "AudioProcessingError", buffer |-> buf]
    ELSE IF \E i \in 1..Len(xs) : ~xs[i].numeric
         THEN [raised |-> "AudioProcessingError", buffer |-> buf]
    ELSE [raised |-> "",
          buffer |-> buf \o [i \in 1..Len(xs) |->
                               [x |-> clip(xs[i].x), at |-> count + i - 1]]]

\* AudioBuffer.extract_segment, with what it leaves in the buffer; duration =
\* NoneIdx stands for duration = None
AudioBuffer_extract_segment(buf, duration, start_index, remove_extracted) ==
    IF start_index < 0 \/ start_index > Len(buf)
    THEN [raised |-> "AudioProcessingError", segment |-> <<>>, buffer |-> buf]
    ELSE IF duration = NoneIdx
         THEN [raised |-> "",
               segment |-> extract_segment(buf, start_index, NoneIdx),
               buffer |-> IF remove_extracted THEN SubSeq(buf, 1, start_index)
                          ELSE buf]
    ELSE LET samples == DurToSamples(duration)
             end_index == Min(start_index + samples, Len(buf))
         IN [raised |-> "",
             segment |-> extract_segment(buf, start_index, samples),
             buffer |-> IF remove_extracted /\ start_index = 0
                        THEN SubSeq(buf, end_index + 1, Len(buf))
                        ELSE buf]

\* buffer.append(audio_data)
BufferAppend(kind, xs, empty_raises) ==
    LET r == AudioBuffer_append(ab_buffer, ab_count, kind, xs, empty_raises) IN
    /\ Len(r.buffer) <= MaxStored
    /\ ab_count + Len(xs) <= MaxStored + 1
    /\ ab_buffer' = r.buffer
    /\ ab_count' = ab_count + (Len(r.buffer) - Len(ab_buffer))
    /\ ab_call' = [op |-> "append", kind |-> kind, audio_data |-> xs,
                   raised |-> r.raised]
    /\ UNCHANGED <<session_vars, manager_vars, endpoint_vars>>

\* buffer.extract_segment(duration, start_index, remove_extracted)
BufferExtract(duration, start_index, remove_extracted) ==
    LET r == AudioBuffer_extract_segment(ab_buffer, duration, start_index,
                                         remove_extracted) IN
    /\ ab_buffer' = r.buffer
    /\ ab_call' = [op |-> "extract_segment", duration |-> duration,
                   start_index |-> start_index,
                   remove_extracted |-> remove_extracted,
                   segment |-> r.segment, raised |-> r.raised]
    /\ UNCHANGED <<ab_count, session_vars, manager_vars, endpoint_vars>>

\* buffer.trim_old_data(max_duration)
BufferTrim(max_duration) ==
    /\ ab_buffer' = trim_old_data(ab_buffer, max_duration)
    /\ ab_call' = [op |-> "trim_old_data", max_duration |-> max_duration]
    /\ UNCHANGED <<ab_count, session_vars, manager_vars, endpoint_vars>>

\* the durations passed to the buffer: those of 0 to MaxStored - 1 samples
BufferDurations == {(n * DurDen) \div SampleRate : n \in 0..(MaxStored - 1)}

NextBuffer ==
    \/ \E kind \in Containers, empty_raises \in BOOLEAN :
          \E xs \in AudioData(kind) : BufferAppend(kind, xs, empty_raises)
    \/ \E duration \in BufferDurations \cup {NoneIdx},
          start_index \in -1..(MaxStored + 1), remove_extracted \in BOOLEAN :
          BufferExtract(duration, start_index, remove_extracted)
    \/ \E max_duration \in BufferDurations : BufferTrim(max_duration)

\* the session is not used: it stays as created, with one choice of its durations
InitBuffer ==
    /\ Init
    /\ \A d \in ChunkDurations : max_segment_duration <= d
    /\ \A d \in LookbackDurations : lookback_duration <= d

\* one AudioBuffer and the calls made on it
SpecBuffer == InitBuffer /\ [][NextBuffer]_vars

-----------------------------------------------------------------------------
(* The VADProcessor with its frame buffer, and the connections that drive one:
   /stream/vad and /stream/vad-binary (api/v1/stream_vad.py) take the module
   global returned by get_vad_processor, a streaming session takes the object its
   StreamingProcessor.initialize created.  A sample in vad_buffer is named by the
   connection that pushed it.  The classifier is external: the flag of the last
   complete hop frame of a push is an input. *)

\* VADProcessor._process_with_ten_vad: the samples join vad_buffer, every complete
\* hop frame is taken from its head and classified, and the flag of the last one
\* is returned; voice_flag stays 0 when no frame is complete
_process_with_ten_vad(v, c, n, flag) ==
    LET extended == v.vad_buffer \o [i \in 1..n |-> c]
        frames == Len(extended) \div hop_size
    IN [v |-> [v EXCEPT !.vad_buffer =
                           SubSeq(extended, frames * hop_size + 1, Len(extended))],
        frames |-> frames,
        current_speaking |-> IF frames = 0 THEN FALSE ELSE flag]

\* VADProcessor._process_with_simple_vad: rms > threshold, the flag of the push
_process_with_simple_vad(v, flag) ==
    [v |-> v, frames |-> 0, current_speaking |-> flag]

\* the silence-timeout test of VADProcessor.process
silence_timeout(v, current_speaking, clock) ==
    /\ v.vad_silence_start # NoneIdx
    /\ ~current_speaking
    /\ clock - v.vad_silence_start >= silence_duration

\* VADProcessor.process(audio_data) for n >= 1 samples pushed by connection c
VADProcessor_process(v, c, n, flag, clock) ==
    LET f == IF use_real_vad THEN _process_with_ten_vad(v, c, n, flag)
             ELSE _process_with_simple_vad(v, flag)
        b == vad_process(f.v, f.current_speaking, clock)
    IN [v |-> b.p,
        call |-> [conn |-> c, op |-> "process", n |-> n, frames |-> f.frames,
                  flag |-> f.current_speaking, was |-> v, after |-> b.p,
                  result |-> [is_speaking |-> b.vr.is_speaking,
                              state_changed |-> b.vr.state_changed,
                              silence_timeout |->
                                  silence_timeout(b.p, f.current_speaking, clock)]]]

\* VADProcessor.reset
VADProcessor_reset(v) == [vad_reset(v) EXCEPT !.vad_buffer = <<>>]

\* the VADProcessor a connection of this endpoint drives
vad_processor_of(c, endpoint) == IF endpoint = "stream" THEN c ELSE 0

\* a connection is accepted: get_vad_processor() for the two VAD endpoints, a new
\* StreamingProcessor with its own VADProcessor for a streaming session
VadOpen(c, endpoint) ==
    /\ vad_conns[c].state = "new"
    /\ vad_conns' = [vad_conns EXCEPT ![c] = [state |-> "open", endpoint |-> endpoint,
                                              buffer |-> 0]]
    /\ vad_processors' = IF endpoint = "stream"
                         THEN [vad_processors EXCEPT ![c] = NewVAD]
                         ELSE vad_processors
    /\ vad_call' = [conn |-> c, op |-> "open"]
    /\ UNCHANGED <<vad_clock, use_real_vad>>
    /\ UNCHANGED <<session_vars, manager_vars, buffer_vars>>

\* the samples an audio message makes the handler pass to process: all of them,
\* or for /stream/vad the first window once the local buffer holds one (0: none)
processed_samples(vc, n) ==
    IF vc.endpoint = "vad"
    THEN IF vc.buffer + n >= window_size THEN window_size ELSE 0
    ELSE n

\* the local buffer of the handler after an audio message: /stream/vad keeps the
\* samples from the middle of the processed window on
local_buffer(vc, n) ==
    IF vc.endpoint = "vad"
    THEN IF vc.buffer + n >= window_size
         THEN vc.buffer + n - (window_size \div 2)
         ELSE vc.buffer + n
    ELSE 0

\* an audio message on an open connection
VadAudio(c, n, flag, dt) ==
    LET vc == vad_conns[c]
        o == vad_processor_of(c, vc.endpoint)
        m == processed_samples(vc, n)
        r == VADProcessor_process(vad_processors[o], c, m, flag, vad_clock + dt)
    IN /\ vc.state = "open"
       /\ vad_clock + dt <= MaxClock
       /\ local_buffer(vc, n) <= MaxLocal
       /\ vad_clock' = vad_clock + dt
       /\ vad_conns' = [vad_conns EXCEPT ![c].buffer = local_buffer(vc, n)]
       /\ IF m = 0
          THEN /\ dt = 0
               /\ vad_call' = [conn |-> c, op |-> "buffered"]
               /\ UNCHANGED vad_processors
          ELSE /\ vad_processors' = [vad_processors EXCEPT ![o] = r.v]
               /\ vad_call' = r.call
       /\ UNCHANGED use_real_vad
       /\ UNCHANGED <<session_vars, manager_vars, buffer_vars>>

\* the connection ends: an "end" message on /stream/vad processes what is left in
\* the local buffer; every way out then resets the VADProcessor (the finally
\* clauses of stream_vad.py, StreamingProcessor.cleanup for a session)
VadClose(c, end, flag) ==
    LET vc == vad_conns[c]
        o == vad_processor_of(c, vc.endpoint)
        r == VADProcessor_process(vad_processors[o], c, vc.buffer, flag, vad_clock)
        last == end /\ vc.endpoint = "vad" /\ vc.buffer > 0
    IN /\ vc.state = "open"
       /\ ~last => ~flag /\ ~end
       /\ vad_conns' = [vad_conns EXCEPT ![c].state = "closed", ![c].buffer = 0]
       /\ vad_processors' =
             [vad_processors EXCEPT
                 ![o] = VADProcessor_reset(IF last THEN r.v ELSE @)]
       /\ vad_call' = IF last THEN [r.call EXCEPT !.op = "process, reset"]
                      ELSE [conn |-> c, op |-> "reset"]
       /\ UNCHANGED <<vad_clock, use_real_vad>>
       /\ UNCHANGED <<session_vars, manager_vars, buffer_vars>>

NextVad ==
    \/ \E c \in VadConns, endpoint \in {"stream", "vad", "vad-binary"} :
          VadOpen(c, endpoint)
    \/ \E c \in VadConns, n \in 1..MaxPush, flag \in BOOLEAN, dt \in 0..1 :
          VadAudio(c, n, flag, dt)
    \/ \E c \in VadConns, end \in BOOLEAN, flag \in BOOLEAN : VadClose(c, end, flag)

\* no connection yet; ten_vad could be imported or not (VADProcessor._initialize_ten_vad)
InitVad ==
    /\ InitSession /\ status_name_bound = FALSE
    /\ \A d \in ChunkDurations : max_segment_duration <= d
    /\ \A d \in LookbackDurations : lookback_duration <= d
    /\ use_real_vad \in BOOLEAN

\* the connections that drive VADProcessor objects
SpecVad == InitVad /\ [][NextVad]_vars

-----------------------------------------------------------------------------
(* Vocabulary of the properties *)

IsResult(m) == m.type = "result"
ResultsOf(msgs) == SelectSeq(msgs, IsResult)
Range(seq) == {seq[i] : i \in 1..Len(seq)}
IdList(segs) == [i \in 1..Len(segs) |-> segs[i].segment_id]
IdSet(segs) == {segs[i].segment_id : i \in 1..Len(segs)}

\* the controller is ACTIVE: an utterance is in progress
Active == speech_start_index # NoneIdx

\* this step handles a push whose flag is a speech -> silence edge of the VAD
VadSilenceEdge ==
    /\ last_msg'.type = "audio"
    /\ processor \in {"ready", "test_failed"} /\ is_recording
    /\ status_name_bound
    /\ vad_is_speaking /\ ~last_msg'.flag

\* this step handles control stop
ControlStop ==
    /\ last_msg'.type = "control" /\ last_msg'.command = "stop"
    /\ processor # "none"

\* this step ends the utterance in progress; U and E of the utterance-end policy
EndsUtterance == Active /\ (VadSilenceEdge \/ ControlStop)
U == speech_start_index
E == Len(buffer')

\* the timeout chunks emitted so far in the utterance in progress
ChunksOfUtterance ==
    {i \in 1..Len(results) : results[i].utt = utt /\ results[i].origin = "timeout"}

\* this step sends exactly one result message
EmitsOne ==
    /\ Len(results') = Len(results) + 1
    /\ SubSeq(results', 1, Len(results)) = results
    /\ Len(ResultsOf(sent')) = 1
    /\ ResultsOf(sent')[1] = results'[Len(results')]
Emitted == results'[Len(results')]

\* the labels of a final and of a reprocessed segment on the wire
LabelledFinal(r) == r.is_final /\ ~r.is_timeout_chunk /\ ~r.is_reprocessed
LabelledReprocessed(r) == r.is_final /\ ~r.is_timeout_chunk /\ r.is_reprocessed

\* the result is for the segment [a, b)
Covers(r, a, b) == r.segment.start_index = a /\ r.segment.end_index = b

\* (E - U) / rate <= lookback_duration
ShortUtterance == DurationAtMost(E - U, lookback_duration)

\* positions in recent_chunks of the chunks with start_index >= E - lookback * rate
InWindow ==
    {i \in 1..Len(recent_chunks) :
        DurationAtMost(E - recent_chunks[i].start_index, lookback_duration)}
FirstInWindow == CHOOSE i \in InWindow : \A j \in InWindow : i <= j

-----------------------------------------------------------------------------
(* C1: when an utterance ends (VAD speech -> silence edge while ACTIVE, or control
   stop while ACTIVE) and no timeout chunk was emitted during it, exactly one result
   is emitted: labelled final, not a timeout chunk, not reprocessed, with empty
   replaces_segments, for the segment [utterance_start, now_index). *)
C1_FinalWhenNoChunk ==
    [][(EndsUtterance /\ ChunksOfUtterance = {})
        => /\ EmitsOne
           /\ LabelledFinal(Emitted)
           /\ Emitted.replaces_segments = <<>>
           /\ Covers(Emitted, U, E)]_vars

\* a silence edge has just ended an utterance that began after index 0, with one
\* final result
C1_Witness ==
    /\ last_msg.type = "audio" /\ ~last_msg.flag
    /\ Len(ResultsOf(sent)) = 1
    /\ ResultsOf(sent)[1].origin = "final"
    /\ ResultsOf(sent)[1].segment.start_index > 0

-----------------------------------------------------------------------------
\* the result of an utterance-end transcription that raised a provider error
ErrorFinal(r) ==
    /\ r.meta_error /\ r.text = 0
    /\ LabelledFinal(r) /\ r.replaces_segments = <<>>

\* the claim C2 as the specification states it: every utterance end with chunks and
\* D <= lookback emits one reprocessed result for [U, E) replacing all recent chunks
C2_AsStated ==
    [][(EndsUtterance /\ ChunksOfUtterance # {} /\ ShortUtterance)
        => /\ EmitsOne
           /\ LabelledReprocessed(Emitted)
           /\ Covers(Emitted, U, E)
           /\ Range(Emitted.replaces_segments) = IdSet(recent_chunks)]_vars

(* C2: when an utterance ends, at least one timeout chunk was emitted during it and
   (E - U) / rate <= lookback_duration, exactly one result is emitted, for the
   segment [U, E); if the transcription succeeds it is labelled reprocessed and its
   replaces_segments is exactly the set of ids of all chunks in recent_chunks; if it
   raises a provider error it is an empty-text final with empty replaces_segments. *)
C2_ReprocessWholeUtterance ==
    [][(EndsUtterance /\ ChunksOfUtterance # {} /\ ShortUtterance)
        => /\ EmitsOne
           /\ Covers(Emitted, U, E)
           /\ IF Emitted.meta_error THEN ErrorFinal(Emitted)
              ELSE /\ LabelledReprocessed(Emitted)
                   /\ Range(Emitted.replaces_segments)
                        = IdSet(recent_chunks)]_vars

\* a silence edge has just ended an utterance of two chunks within the lookback, and
\* the reprocessed result replaces both
C2_Witness ==
    /\ last_msg.type = "audio" /\ ~last_msg.flag
    /\ Len(ResultsOf(sent)) = 1
    /\ ResultsOf(sent)[1].origin = "reprocess_all"
    /\ ResultsOf(sent)[1].is_reprocessed
    /\ Len(ResultsOf(sent)[1].replaces_segments) = 2

-----------------------------------------------------------------------------
\* the claim C3 as the specification states it
C3_AsStated ==
    [][(EndsUtterance /\ ChunksOfUtterance # {} /\ ~ShortUtterance /\ InWindow # {})
        => /\ EmitsOne
           /\ LabelledReprocessed(Emitted)
           /\ Covers(Emitted, recent_chunks[FirstInWindow].start_index, E)
           /\ Emitted.replaces_segments
                = IdList(SubSeq(recent_chunks, FirstInWindow, Len(recent_chunks)))]_vars

(* C3: when an utterance ends with (E - U) / rate > lookback_duration and some chunk
   of recent_chunks has start_index >= E - lookback_duration * rate, exactly one
   result is emitted, for the segment [R, E) where R is the start of the first such
   chunk; if the transcription succeeds it is labelled reprocessed and its
   replaces_segments is exactly the ids of that chunk and of every later chunk, the
   earlier chunks not being listed; if it raises a provider error it is an
   empty-text final with empty replaces_segments. *)
C3_ReprocessLookbackWindow ==
    [][(EndsUtterance /\ ChunksOfUtterance # {} /\ ~ShortUtterance /\ InWindow # {})
        => /\ EmitsOne
           /\ Covers(Emitted, recent_chunks[FirstInWindow].start_index, E)
           /\ IF Emitted.meta_error THEN ErrorFinal(Emitted)
              ELSE /\ LabelledReprocessed(Emitted)
                   /\ Emitted.replaces_segments
                        = IdList(SubSeq(recent_chunks, FirstInWindow,
                                         Len(recent_chunks)))]_vars

\* a silence edge has just ended an utterance longer than the lookback, and the
\* reprocessed result replaces some of the recent chunks but not the first
C3_Witness ==
    /\ last_msg.type = "audio" /\ ~last_msg.flag
    /\ Len(ResultsOf(sent)) = 1
    /\ ResultsOf(sent)[1].origin = "reprocess_lookback"
    /\ ResultsOf(sent)[1].is_reprocessed
    /\ ResultsOf(sent)[1].replaces_segments # <<>>
    /\ Len(recent_chunks) = 0
    /\ \E i \in 1..Len(results) :
          /\ results[i].origin = "timeout" /\ results[i].utt = utt
          /\ results[i].segment_id \notin Range(ResultsOf(sent)[1].replaces_segments)

-----------------------------------------------------------------------------
(* C4: when an utterance ends with (E - U) / rate > lookback_duration, chunks were
   emitted and no chunk of recent_chunks has start_index >= E - lookback_duration *
   rate, exactly one result is emitted: labelled final, not reprocessed, with empty
   replaces_segments, for the segment [last_chunk_end, E). *)
C4_AsStated ==
    [][(EndsUtterance /\ ChunksOfUtterance # {} /\ ~ShortUtterance /\ InWindow = {})
        => /\ EmitsOne
           /\ LabelledFinal(Emitted)
           /\ Emitted.replaces_segments = <<>>
           /\ Covers(Emitted, last_chunk_end_index, E)]_vars

-----------------------------------------------------------------------------
\* result i was never listed in the replaces_segments of a later result
Accepted(i) ==
    \A j \in (i + 1)..Len(results) :
        results[i].segment_id \notin Range(results[j].replaces_segments)
Disjoint(a, b) == a.end_index <= b.start_index \/ b.end_index <= a.start_index

(* C5: after every utterance end, the ranges of the accepted segments of an
   utterance (emitted and never listed in a later replaces_segments) are pairwise
   disjoint.  Ranges are compared within one utterance, where the buffer indices
   are stable, and only between results whose transcription succeeded. *)
C5_AsStated ==
    ~Active =>
        \A i, j \in 1..Len(results) :
            (/\ i < j
             /\ results[i].utt = results[j].utt
             /\ ~results[i].meta_error /\ ~results[j].meta_error
             /\ Accepted(i) /\ Accepted(j))
            => Disjoint(results[i].segment, results[j].segment)

\* an utterance of four timeout chunks has been reprocessed as a whole, and the
\* reprocessed result lists three ids: the first chunk is overlapped and not replaced
FourChunksThreeReplaced ==
    \E j \in 1..Len(results) :
        /\ results[j].origin = "reprocess_all" /\ results[j].is_reprocessed
        /\ Len(results[j].replaces_segments) = RecentChunksCap
        /\ Cardinality({i \in 1..(j - 1) : /\ results[i].utt = results[j].utt
                                            /\ results[i].origin = "timeout"}) = 4
        /\ \E i \in 1..(j - 1) :
              /\ results[i].utt = results[j].utt /\ results[i].origin = "timeout"
              /\ ~Disjoint(results[i].segment, results[j].segment)

-----------------------------------------------------------------------------
\* the range of the reprocessed result j contains the range of every earlier result
\* whose id it lists
ContainsReplaced(j) ==
    \A i \in 1..(j - 1) :
        results[i].segment_id \in Range(results[j].replaces_segments)
        => /\ results[j].start_index <= results[i].segment.start_index
           /\ results[i].segment.end_index <= results[j].end_index

(* C6: the range of every reprocessed result contains the range of every segment
   whose id is in its replaces_segments. *)
C6_AsStated ==
    \A j \in 1..Len(results) : results[j].is_reprocessed => ContainsReplaced(j)

\* ids strictly increase in the order of emission
IdsIncrease ==
    \A i, j \in 1..Len(results) :
        i < j => results[i].segment_id < results[j].segment_id

\* the containment holds in every session whose ids are pairwise distinct
ContainsReplacedWhenIdsIncrease == IdsIncrease => C6_AsStated

-----------------------------------------------------------------------------
(* C7: the range of every reprocessed result satisfies end_index - start_index <=
   lookback_duration * rate, allowing at most one chunk length
   (max_segment_duration * rate) of slack. *)
C7_ReprocessedBounded ==
    \A j \in 1..Len(results) :
        results[j].is_reprocessed
        => DurationAtMost(results[j].end_index - results[j].start_index,
                          lookback_duration + max_segment_duration)

\* an utterance longer than the lookback has been reprocessed over a range as long
\* as the lookback allows
C7_Witness ==
    \E j \in 1..Len(results) :
        /\ results[j].is_reprocessed
        /\ results[j].origin = "reprocess_lookback"
        /\ results[j].end_index - results[j].start_index = DurToSamples(lookback_duration)

-----------------------------------------------------------------------------
(* C8: each id in a result's replaces_segments is the segment_id of a result emitted
   earlier in the same session and the same utterance, and that earlier result was
   emitted as a timeout chunk or as a previous reprocessed result. *)
C8_AsStated ==
    \A j \in 1..Len(results) :
        \A id \in Range(results[j].replaces_segments) :
            \E i \in 1..(j - 1) :
                /\ results[i].segment_id = id
                /\ results[i].utt = results[j].utt
                /\ results[i].is_timeout_chunk \/ results[i].is_reprocessed

-----------------------------------------------------------------------------
(* C9: within one session with a non-decreasing wall clock, segment_id values are
   strictly increasing in creation order, two segments created within the same
   millisecond included. *)
C9_AsStated ==
    \A i, j \in 1..Len(results) :
        i < j => results[i].segment.segment_id < results[j].segment.segment_id

-----------------------------------------------------------------------------
\* the positions in the messages of the last handler of the processing statuses
ProcessingStatuses ==
    {i \in 1..Len(sent) : sent[i].type = "status" /\ sent[i].status = "processing"}

(* C10: for every audio push received while the session is configured and
   recording, exactly one status message with status "processing" is emitted, and
   it is emitted before any result message produced by that same push. *)
C10_AsStated ==
    (last_msg.type = "audio" /\ processor = "ready" /\ is_recording)
    => /\ Cardinality(ProcessingStatuses) = 1
       /\ \A i \in ProcessingStatuses :
             \A j \in 1..Len(sent) : sent[j].type = "result" => i < j

-----------------------------------------------------------------------------
\* the positions on the wire of the messages caused by audio pushes
OfPushes == {i \in 1..Len(wire) : wire[i].cause > 0}

(* C11: for two consecutive audio pushes of one websocket session, every outbound
   message caused by the earlier push is sent before any outbound message caused
   by the later one, the results of the transcriptions they started included. *)
C11_PushOrder ==
    \A i, j \in OfPushes : i < j => wire[i].cause <= wire[j].cause

\* the first push started a transcription, the second arrived while it was in
\* flight, and both have messages on the wire, the first one's result among them
C11_Witness ==
    \E i, j \in OfPushes :
        /\ i < j
        /\ wire[i].cause = 1 /\ wire[i].type = "result"
        /\ wire[j].cause = 2 /\ wire[j].during = 1

-----------------------------------------------------------------------------
\* the transcription requests of the session that have not returned
Outstanding == {task \in {"ws", "rest"} : calls[task].kind # "none"}

(* C12: at most one transcription request is outstanding for a session at any
   time, under every interleaving of the websocket handler with control commands
   delivered through send_control_command. *)
C12_AsStated ==
    Cardinality(Outstanding) <= 1

-----------------------------------------------------------------------------
\* the transcription of the websocket task returns after a stop or a reset was
\* handled while it was in flight
StaleCompletion ==
    /\ calls.ws.kind # "none" /\ calls.ws.stale
    /\ calls'.ws.kind = "none"

(* C13: when control stop or reset is handled while a transcription is in flight,
   the result of that transcription is never emitted afterwards, and its
   completion modifies none of recent_chunks, last_chunk_end_index and the
   history. *)
C13_AsStated ==
    [][StaleCompletion =>
          /\ results' = results
          /\ recent_chunks' = recent_chunks
          /\ last_chunk_end_index' = last_chunk_end_index
          /\ previous_results' = previous_results]_vars

-----------------------------------------------------------------------------
\* the pushes that arrived while the transcription started by push f was in flight
ArrivedDuring(f) == {wire[i].cause : i \in {j \in OfPushes : wire[j].during = f}}

\* the speech samples of push k
SpeechOf(k) ==
    LET of_k == {i \in OfPushes : wire[i].cause = k /\ wire[i].flag}
    IN IF of_k = {} THEN 0 ELSE wire[CHOOSE i \in of_k : wire[i].n > 0].n

RECURSIVE SpeechOfAll(_)
SpeechOfAll(ks) ==
    IF ks = {} THEN 0
    ELSE LET k == CHOOSE x \in ks : TRUE IN SpeechOf(k) + SpeechOfAll(ks \ {k})

\* the timeout chunks cut from the audio that arrived during flight f
BacklogChunks(f) ==
    {i \in OfPushes : /\ wire[i].during = f
                      /\ wire[i].type = "result" /\ wire[i].origin = "timeout"}

\* the result that the i-th message on the wire carries
ResultOnWire(i) ==
    results[Cardinality({j \in 1..i : wire[j].type = "result"})]

(* C14: if two or more chunk deadlines, each max_segment_duration of new speech
   audio, elapse while one transcription is in flight, then after it completes
   only one timeout chunk is emitted for that backlog, and it ends
   max_segment_duration after the previous chunk; no second chunk is emitted for
   the same backlog. *)
C14_AsStated ==
    \A f \in 1..n_pushes :
        DurationAtLeast(SpeechOfAll(ArrivedDuring(f)), 2 * max_segment_duration)
        => /\ Cardinality(BacklogChunks(f)) <= 1
           /\ \A i \in BacklogChunks(f) :
                 ResultOnWire(i).segment.end_index
                    = ResultOnWire(i).segment.start_index
                        + DurToSamples(max_segment_duration)

-----------------------------------------------------------------------------
\* the last inbound message was control stop or reset and the processor handled it
StopOrResetHandled ==
    /\ last_msg.type = "control" /\ last_msg.command \in {"stop", "reset"}
    /\ processor # "none"

(* C15: after a control stop or a control reset has been handled, and before the
   next inbound message is processed, the audio buffer is empty and the VAD engine
   is reset (not speaking, silence start unset). *)
C15_AsStated ==
    StopOrResetHandled
    => /\ buffer = <<>>
       /\ ~vad_is_speaking /\ vad_silence_start = NoneIdx

-----------------------------------------------------------------------------
\* the controller is idle and the session is not recording
IdleNotRecording ==
    speech_start_index = NoneIdx /\ recent_chunks = <<>> /\ ~is_recording

(* C16: when control stop arrives while an utterance is active, the utterance-end
   policy runs with E the current buffer length and its reprocessed or final result
   is emitted, after which the controller is idle (utterance start unset,
   recent_chunks empty) and recording is false; when the controller is idle, stop
   emits no result. *)
C16_StopEndsUtterance ==
    [][ControlStop =>
          /\ IdleNotRecording'
          /\ IF Active
             THEN /\ Len(results') = Len(results) + 1
                  /\ LET r == results'[Len(results')]
                     IN /\ r.segment.end_index = Len(buffer)
                        /\ r.origin \in {"final", "reprocess_all", "reprocess_lookback"}
                        /\ ~r.meta_error => (r.is_final /\ ~r.is_timeout_chunk)
                        /\ ~r.meta_error =>
                              (r.is_reprocessed <=> recent_chunks # <<>>)
             ELSE results' = results /\ ResultsOf(sent') = <<>>]_vars

\* stop has ended an utterance that had timeout chunks
C16_Witness ==
    /\ last_msg.type = "control" /\ last_msg.command = "stop"
    /\ IdleNotRecording
    /\ \E i \in 1..Len(sent) : IsResult(sent[i]) /\ sent[i].is_reprocessed

-----------------------------------------------------------------------------
\* the positions of the results sent for a transcription that failed
Failed == {i \in 1..Len(results) : results[i].meta_error}

(* C17: when the transcription of a timeout chunk fails, a result is still emitted
   for it, labelled is_timeout_chunk = true and is_final = false, with the empty
   text and the chunk's segment_id, and the session continues. *)
C17_AsStated ==
    \A i \in Failed :
        results[i].origin = "timeout"
        => /\ results[i].is_timeout_chunk /\ ~results[i].is_final
           /\ results[i].text = 0
           /\ results[i].segment_id = results[i].segment.segment_id

-----------------------------------------------------------------------------
\* this step ends an utterance with a transcription that fails
FailedUtteranceEnd ==
    /\ EndsUtterance
    /\ Len(results') = Len(results) + 1
    /\ results'[Len(results')].meta_error

(* C18: when the transcription of an utterance end (reprocessed or final) fails, a
   result with the empty text and empty replaces_segments is emitted, the history
   is left unchanged, and the controller returns to idle. *)
C18_FailedEndKeepsHistory ==
    [][FailedUtteranceEnd =>
          /\ results'[Len(results')].text = 0
          /\ results'[Len(results')].replaces_segments = <<>>
          /\ results'[Len(results')] \in Range(sent')
          /\ previous_results' = previous_results
          /\ speech_start_index' = NoneIdx /\ recent_chunks' = <<>>]_vars

\* an utterance with a timeout chunk in the history has ended with a transcription
\* that failed
C18_Witness ==
    /\ results # <<>> /\ previous_results # <<>>
    /\ results[Len(results)].meta_error
    /\ results[Len(results)].origin \in {"reprocess_all", "reprocess_lookback"}
    /\ results[Len(results)] \in Range(sent)
    /\ speech_start_index = NoneIdx

-----------------------------------------------------------------------------
\* the non-empty texts of the accepted segments, in emission order
AcceptedTexts ==
    LET kept(i) == Accepted(i) /\ results[i].text # 0
        positions == SelectSeq([i \in 1..Len(results) |-> i], kept)
    IN [k \in 1..Len(positions) |-> results[positions[k]].text]

\* the history is the accepted texts, the last HistoryCap of them
HistoryIsAccepted == previous_results = LastN(AcceptedTexts, HistoryCap)

(* C19: after any sequence of audio pushes and control commands, the session
   history previous_results is exactly the sequence, in emission order, of the
   non-empty texts of the accepted segments (emitted and not replaced by a later
   result), truncated to the last 10.  Stated for every step but a reset, which
   empties the history: a step that starts with such a history ends with one. *)
C19_AsStated ==
    [][(HistoryIsAccepted /\ last_msg'.command # "reset") => HistoryIsAccepted']_vars

-----------------------------------------------------------------------------
\* the history of before this step without the texts of the segments that the
\* result of this step replaces
Remaining ==
    LET stays(t) == ~(/\ results[t].utt = Emitted.utt
                      /\ results[t].segment_id \in Range(Emitted.replaces_segments))
    IN SelectSeq(previous_results, stays)

(* C20: the prompt sent with the transcription call of a reprocessed segment is
   the concatenation of the last two history transcripts that remain after the
   transcripts of the segments being replaced have been excluded; it never
   contains the text of a segment listed in that call's replaces_segments. *)
C20_AsStated ==
    [][(EmitsOne /\ Emitted.is_reprocessed) => Emitted.prompt = LastN(Remaining, 2)]_vars

-----------------------------------------------------------------------------
\* this step is add_client called while the manager is at capacity
AddAtCapacity ==
    /\ Cardinality(clients) >= streaming_max_clients
    /\ \E c \in Conns : conn[c] = "new" /\ conn'[c] # "new"

(* C21: in every reachable state, under any interleaving of concurrent add_client
   and remove_client calls, the number of registered sessions is at most
   streaming_max_clients; an add_client made while the count is at the limit
   fails and leaves the session map and total_connections unchanged. *)
C21_CapacityBound ==
    [][/\ Cardinality(clients') <= streaming_max_clients
       /\ AddAtCapacity =>
             /\ \E c \in Conns : conn[c] = "new" /\ conn'[c] = "refused"
             /\ clients' = clients
             /\ total_connections' = total_connections]_vars

\* a connection was refused at capacity after another one had left
C21_Witness ==
    /\ Cardinality(clients) = streaming_max_clients
    /\ \E c \in Conns : conn[c] = "refused"
    /\ \E c \in Conns : conn[c] = "closed"
    /\ total_connections > streaming_max_clients

-----------------------------------------------------------------------------
\* the connection received an error message with this code
ReceivedError(c, error_code) ==
    \E i \in 1..Len(outbox[c]) :
        outbox[c][i].type = "error" /\ outbox[c][i].error_code = error_code

(* C22: when a connection is opened while the manager is at capacity, the client
   receives a typed error message whose error code is AT_CAPACITY and the
   transport is then closed, without the connection entering the message loop. *)
C22_AsStated ==
    \A c \in Conns : conn[c] = "refused" => ReceivedError(c, "AT_CAPACITY")

-----------------------------------------------------------------------------
(* C23: manager teardown (StreamingManager.cleanup) terminates for any number of
   registered sessions, and when it completes the session map is empty and every
   session's processor has been cleaned up. *)
C23_AsStated ==
    (teardown = "removing") ~> (teardown = "done" /\ todo = {})

-----------------------------------------------------------------------------
\* the error codes the specification classifies as not recoverable
NotRecoverable == {"CONFIGURATION_ERROR", "STREAMING_ERROR"}

(* C24: every outbound error message carries recoverable = false exactly when its
   error_code is CONFIGURATION_ERROR or STREAMING_ERROR, and recoverable = true
   for every other error code.  (No handler of a message removes the session,
   so the session stays registered after every error.) *)
C24_AsStated ==
    \A i \in 1..Len(sent) :
        sent[i].type = "error"
        => (sent[i].recoverable <=> sent[i].error_code \notin NotRecoverable)

-----------------------------------------------------------------------------
\* the messages of the last handler that are the ready status
ReadyStatuses ==
    {i \in 1..Len(sent) : sent[i].type = "status" /\ sent[i].status = "ready"}

\* the messages of the last handler that are the error CONFIGURATION_ERROR
ConfigurationErrors ==
    {i \in 1..Len(sent) : sent[i].type = "error"
                          /\ sent[i].error_code = "CONFIGURATION_ERROR"}

(* C25: after a config message, a ready status is emitted if and only if the
   transcription client was constructed and the connectivity self-test succeeded;
   when construction or the self-test fails, a CONFIGURATION_ERROR error is
   emitted and no ready status. *)
C25_ReadyIffInitialized ==
    last_msg.type = "config"
    => /\ ReadyStatuses # {} <=> last_msg.command = "ready"
       /\ ReadyStatuses # {} <=> processor = "ready"
       /\ last_msg.command # "ready" => ConfigurationErrors # {}
       /\ Len(sent) = 1

\* a config message whose self-test failed was answered
C25_Witness ==
    /\ last_msg.type = "config" /\ last_msg.command = "test_failed"
    /\ ConfigurationErrors # {} /\ ReadyStatuses = {}

-----------------------------------------------------------------------------
\* this step handles an audio push
AudioPush == last_msg'.type = "audio"

\* the buffer, the VAD and the controller are as they were
SessionStateKept ==
    /\ buffer' = buffer
    /\ vad_is_speaking' = vad_is_speaking /\ vad_silence_start' = vad_silence_start
    /\ speech_start_index' = speech_start_index
    /\ last_chunk_end_index' = last_chunk_end_index
    /\ recent_chunks' = recent_chunks
    /\ previous_results' = previous_results

\* the handler of this step sent no status and no result
NoStatusNoResult ==
    \A i \in 1..Len(sent') : sent'[i].type \notin {"status", "result"}

(* C26, as stated: audio is appended to the audio buffer if and only if the
   session is recording; an audio push received while recording is false leaves
   the buffer, the VAD state and the controller state unchanged and emits no
   status or result message. *)
C26_AsStated ==
    [][AudioPush =>
          /\ buffer' # buffer <=> is_recording
          /\ ~is_recording => (SessionStateKept /\ NoStatusNoResult)]_vars

(* C26, amended: in a session whose last config message succeeded, audio is
   appended to the audio buffer if and only if the session is recording; in every
   session an audio push received while recording is false leaves the buffer, the
   VAD state and the controller state unchanged and emits no status or result
   message. *)
C26_AppendIffRecording ==
    [][AudioPush =>
          /\ processor = "ready" => (buffer' # buffer <=> is_recording)
          /\ ~is_recording => (SessionStateKept /\ NoStatusNoResult)]_vars

\* a push was received by a paused session that holds audio
C26_Witness ==
    /\ last_msg.type = "audio"
    /\ processor = "ready" /\ ~is_recording
    /\ buffer # <<>> /\ Len(buffer) < appended
    /\ sent = <<>>

-----------------------------------------------------------------------------
\* this step handles control pause or control resume
PauseOrResume ==
    /\ last_msg'.type = "control" /\ last_msg'.command \in {"pause", "resume"}
    /\ processor # "none"

(* C27: control pause sets recording to false and control resume sets it to true,
   and both leave the buffer contents, utterance_start, last_chunk_end,
   recent_chunks, history and VAD state unchanged and emit no result. *)
C27_PauseResumeToggle ==
    [][PauseOrResume =>
          /\ is_recording' = (last_msg'.command = "resume")
          /\ SessionStateKept
          /\ results' = results /\ sent' = <<>>]_vars

\* an utterance with a timeout chunk was paused
C27_Witness ==
    /\ last_msg.type = "control" /\ last_msg.command = "pause"
    /\ ~is_recording
    /\ speech_start_index # NoneIdx /\ recent_chunks # <<>> /\ previous_results # <<>>
    /\ vad_is_speaking

-----------------------------------------------------------------------------
\* the session after one reset and after two consecutive resets, from this state
ResetOnce == handle_control(P, "reset", now, "text")
ResetTwice == handle_control(ResetOnce, "reset", now, "text")

(* C28: from any reachable session state, handling two consecutive reset commands
   leaves the session in the same state as handling one: recording off, controller
   idle, empty buffer, empty history, empty recent_chunks, VAD state cleared. *)
C28_ResetIdempotent ==
    /\ ResetTwice = ResetOnce
    /\ ~ResetOnce.is_recording
    /\ ResetOnce.speech_start_index = NoneIdx /\ ResetOnce.last_chunk_end_index = 0
    /\ ResetOnce.buffer = <<>>
    /\ ResetOnce.previous_results = <<>>
    /\ ResetOnce.recent_chunks = <<>>
    /\ ~ResetOnce.vad_is_speaking /\ ResetOnce.vad_silence_start = NoneIdx
    /\ (last_msg.type = "control" /\ last_msg.command = "reset") => ResetOnce = P

\* a session that had audio, a history and results was reset
C28_Witness ==
    /\ last_msg.type = "control" /\ last_msg.command = "reset"
    /\ results # <<>> /\ appended > 0
    /\ buffer = <<>> /\ previous_results = <<>> /\ ~is_recording

-----------------------------------------------------------------------------
\* this step handles a push whose flag is a silence -> speech edge of the VAD,
\* with the controller idle
SpeechEdgeWhileIdle ==
    /\ last_msg'.type = "audio" /\ last_msg'.flag
    /\ processor \in {"ready", "test_failed"} /\ is_recording
    /\ status_name_bound
    /\ ~vad_is_speaking
    /\ ~Active

\* pre_roll * rate, with pre_roll = 0.5 s
PreRollSamples == SampleRate \div 2

\* utterance_start as specified, at the buffer length the push leaves
UtteranceStart == Max(0, Len(buffer') - PreRollSamples)

(* C29: on a VAD silence -> speech edge while idle, the controller sets
   utterance_start = max(0, now_index - pre_roll * rate) with pre_roll = 0.5 s,
   sets last_chunk_end = utterance_start, clears recent_chunks and becomes active.
   When the same push also cuts a timeout chunk, that chunk starts at
   utterance_start and is the only one in recent_chunks. *)
C29_SpeechStart ==
    [][SpeechEdgeWhileIdle =>
          /\ speech_start_index' = UtteranceStart
          /\ IF Len(results') = Len(results)
             THEN last_chunk_end_index' = UtteranceStart /\ recent_chunks' = <<>>
             ELSE /\ Emitted.origin = "timeout"
                  /\ Emitted.segment.start_index = UtteranceStart
                  /\ recent_chunks' = <<Emitted.segment>>
                  /\ last_chunk_end_index' = Emitted.segment.end_index]_vars

\* an utterance has just started half a second before the end of a buffer that
\* held earlier audio
C29_Witness ==
    /\ last_msg.type = "audio" /\ last_msg.flag
    /\ speech_start_index > 0
    /\ speech_start_index = Len(buffer) - PreRollSamples
    /\ last_chunk_end_index = speech_start_index /\ recent_chunks = <<>>

-----------------------------------------------------------------------------
\* the timeout chunks of utterance u, as positions in results
TimeoutChunks(u) ==
    {i \in 1..Len(results) : results[i].utt = u /\ results[i].origin = "timeout"}

\* chunk j is the one cut after chunk i in their utterance
NextChunk(i, j) ==
    /\ i < j
    /\ j \in TimeoutChunks(results[i].utt)
    /\ \A k \in TimeoutChunks(results[i].utt) : ~(i < k /\ k < j)

\* every chunk is max_segment_duration long and starts where the one before ended;
\* the chunks of the utterance in progress start at utterance_start and end at
\* last_chunk_end
Tiled ==
    /\ \A i \in 1..Len(results) :
          results[i].origin = "timeout"
          => /\ results[i].segment.end_index
                  = results[i].segment.start_index + DurToSamples(max_segment_duration)
             /\ \A j \in 1..Len(results) :
                   NextChunk(i, j)
                   => results[j].segment.start_index = results[i].segment.end_index
    /\ Active =>
          IF TimeoutChunks(utt) = {}
          THEN last_chunk_end_index = speech_start_index
          ELSE /\ \E i \in TimeoutChunks(utt) :
                     results[i].segment.start_index = speech_start_index
               /\ \E i \in TimeoutChunks(utt) :
                     results[i].segment.end_index = last_chunk_end_index
               /\ \A i \in TimeoutChunks(utt) :
                     /\ speech_start_index <= results[i].segment.start_index
                     /\ results[i].segment.end_index <= last_chunk_end_index

(* C30: while active with the VAD speaking, a push cuts a timeout chunk only when
   (now_index - last_chunk_end) / rate >= max_segment_duration; each chunk covers
   exactly [last_chunk_end, last_chunk_end + max_segment_duration * rate) and
   last_chunk_end then advances to the chunk's end, so the timeout chunks of one
   utterance tile [utterance_start, last_chunk_end) contiguously with no gap and
   no overlap. *)
C30_ChunksTile ==
    [][/\ Tiled'
       /\ (Len(results') > Len(results) /\ Emitted.origin = "timeout")
          => /\ vad_is_speaking' /\ Active'
             /\ DurationAtLeast(Len(buffer') - Emitted.segment.start_index,
                                max_segment_duration)
             /\ last_chunk_end_index' = Emitted.segment.end_index]_vars

\* the utterance in progress has two timeout chunks, and audio after the last one
C30_Witness ==
    /\ Active /\ vad_is_speaking
    /\ \E i, j \in TimeoutChunks(utt) : NextChunk(i, j)
    /\ last_chunk_end_index < Len(buffer)

-----------------------------------------------------------------------------
\* this step handles a push while recording, and the VAD has not reported speech yet
SilentPush == AudioPush /\ is_recording /\ utt' = 0

\* the buffer once the push is appended, before any clean-up
Pushed == append(buffer, appended, last_msg'.n)

\* the last max_segment_duration * rate samples of the buffer after the push
KeptTail == LastN(Pushed, DurToSamples(max_segment_duration))

(* C31, as stated: with recording on and only silence pushed, no result is ever
   emitted and utterance_start stays unset, and whenever the idle buffer duration
   is >= 2 * max_segment_duration after a push, the buffer prefix is trimmed so
   that only the last max_segment_duration * rate samples remain. *)
C31_AsStated ==
    [][SilentPush =>
          /\ results' = <<>> /\ speech_start_index' = NoneIdx
          /\ DurationAtLeast(Len(Pushed), 2 * max_segment_duration)
             => buffer' = KeptTail]_vars

(* C31, amended: with recording on and only silence pushed, no result is ever
   emitted and utterance_start stays unset; whenever the idle buffer duration
   exceeds 2 * max_segment_duration after a push, the buffer prefix is trimmed so
   that only the last max_segment_duration * rate samples remain, and a buffer of
   at most 2 * max_segment_duration is kept whole. *)
C31_SilenceOnly ==
    [][SilentPush =>
          /\ results' = <<>> /\ speech_start_index' = NoneIdx
          /\ buffer' = IF DurationOver(Len(Pushed), 2 * max_segment_duration)
                       THEN KeptTail ELSE Pushed]_vars

\* a silent push made the buffer longer than 2 * max_segment_duration, and only
\* the last max_segment_duration * rate samples are left
C31_Witness ==
    /\ last_msg.type = "audio" /\ ~last_msg.flag
    /\ is_recording /\ utt = 0 /\ n_controls = 1
    /\ Len(buffer) = DurToSamples(max_segment_duration)
    /\ buffer[1] > 0 /\ buffer[Len(buffer)] = appended - 1
    /\ results = <<>> /\ speech_start_index = NoneIdx

-----------------------------------------------------------------------------
\* this step is a call of trim_old_data on the buffer
TrimCall == ab_call'.op = "trim_old_data"

(* C32: for any sequence of appends and trims on the audio buffer, the sample read
   at a given absolute index i (while that sample is still present) equals the
   value originally appended at i: trimming never changes which sample an index
   held by the controller refers to.  Every sample that a trim leaves in the
   buffer is read at the index it was read at before the trim. *)
C32_AsStated ==
    [][TrimCall =>
          \A i \in 1..Len(ab_buffer) :
             ab_buffer[i] \in Range(ab_buffer')
             => i <= Len(ab_buffer') /\ ab_buffer'[i] = ab_buffer[i]]_vars

-----------------------------------------------------------------------------
\* what C33 says of this step when it is an append of one of these containers
AppendContract(kinds) ==
    (ab_call'.op = "append" /\ ab_call'.kind \in kinds) =>
    LET xs == ab_call'.audio_data
        numeric == ab_call'.kind # "str" /\ \A i \in 1..Len(xs) : xs[i].numeric
        before == Len(ab_buffer)
    IN /\ (numeric /\ xs = <<>>) => (ab_call'.raised = "" /\ ab_buffer' = ab_buffer)
       /\ ~numeric => (ab_call'.raised # "" /\ ab_buffer' = ab_buffer)
       /\ numeric =>
             /\ Len(ab_buffer') = before + Len(xs)
             /\ SubSeq(ab_buffer', 1, before) = ab_buffer
             /\ \A i \in 1..Len(xs) :
                   ab_buffer'[before + i].x = Max(-Full, Min(Full, xs[i].x))
       /\ \A i \in 1..Len(ab_buffer') :
             -Full <= ab_buffer'[i].x /\ ab_buffer'[i].x <= Full

(* C33: for every sample x passed to AudioBuffer.append, the value stored equals
   max(-1.0, min(1.0, x)), so every stored sample lies in [-1.0, 1.0]; appending
   an empty input is a no-op, and an append containing a non-numeric sample fails
   and leaves the buffer unchanged. *)
C33_AsStated == [][AppendContract(Containers)]_vars

-----------------------------------------------------------------------------
\* this step is a call of extract_segment that returned a segment
ExtractCall == ab_call'.op = "extract_segment" /\ ab_call'.raised = ""

\* buf without the n samples from index start_index on
Deleted(buf, start_index, n) ==
    SubSeq(buf, 1, start_index) \o SubSeq(buf, start_index + n + 1, Len(buf))

(* C36: AudioBuffer.extract_segment leaves the buffer unchanged by default, and
   with remove_extracted = true it removes from the buffer exactly the samples it
   returns, for every valid start_index and every duration (None or bounded): the
   remaining buffer is the original with the returned range deleted. *)
C36_AsStated ==
    [][ExtractCall =>
          LET returned == ab_call'.segment
              start_index == ab_call'.start_index
          IN /\ returned = SubSeq(ab_buffer, start_index + 1,
                                  start_index + Len(returned))
             /\ ab_buffer' = IF ab_call'.remove_extracted
                             THEN Deleted(ab_buffer, start_index, Len(returned))
                             ELSE ab_buffer]_vars

-----------------------------------------------------------------------------
\* this step called VADProcessor.process
ProcessCall == vad_call'.op \in {"process", "process, reset"}

\* no VADProcessor is speaking with silence_start set
SilenceStartOnlyInSilence(processors) ==
    \A o \in VadObjects :
       processors[o].vad_silence_start # NoneIdx => ~processors[o].vad_is_speaking

(* C34: for every VAD push, state_changed is true iff the classified flag differs
   from is_speaking before the push, and after the push is_speaking equals the
   flag; silence_since is set exactly on a transition to silence and cleared on a
   transition to speech, so in every reachable state silence_since set implies
   is_speaking = false and silence_timeout is never reported while speaking. *)
C34_StateChange ==
    [][/\ SilenceStartOnlyInSilence(vad_processors')
       /\ ProcessCall =>
             LET k == vad_call'
                 edge == k.flag # k.was.vad_is_speaking
             IN /\ k.result.state_changed <=> edge
                /\ k.result.is_speaking = k.flag
                /\ k.after.vad_is_speaking = k.flag
                /\ k.after.vad_silence_start =
                      IF edge /\ ~k.flag THEN vad_clock'
                      ELSE IF edge /\ k.flag THEN NoneIdx
                      ELSE k.was.vad_silence_start
                /\ k.result.silence_timeout => ~k.result.is_speaking]_vars

\* a push in silence is reported as a silence timeout: speech had started, then
\* stopped, and silence_duration has passed since
C34_Witness ==
    /\ vad_call.op = "process"
    /\ vad_call.result.silence_timeout /\ ~vad_call.result.state_changed
    /\ vad_call.was.vad_silence_start # NoneIdx
    /\ vad_call.after.vad_silence_start = vad_call.was.vad_silence_start
    /\ vad_clock >= vad_call.after.vad_silence_start + silence_duration

-----------------------------------------------------------------------------
(* C39: in the frame-classifier VAD path, after every push the residual
   frame_buffer holds fewer than hop_size samples, and a push that completes no
   hop frame (residual plus new samples < hop_size) leaves is_speaking unchanged
   and reports state_changed = false. *)
C39_AsStated ==
    [][(ProcessCall /\ use_real_vad) =>
          LET k == vad_call' IN
          /\ Len(k.after.vad_buffer) < hop_size
          /\ Len(k.was.vad_buffer) + k.n < hop_size
             => /\ k.after.vad_is_speaking = k.was.vad_is_speaking
                /\ ~k.result.state_changed]_vars

-----------------------------------------------------------------------------
\* the is_speaking flag and the frame buffer of the VADProcessor that connection c
\* drives, among these objects
Observed(c, processors) ==
    LET v == processors[vad_processor_of(c, vad_conns[c].endpoint)]
    IN [is_speaking |-> v.vad_is_speaking, frame_buffer |-> v.vad_buffer]

\* this step is connection c processing audio or closing, while d is open
ActsBeside(c, d) ==
    /\ c # d
    /\ vad_call'.conn = c /\ vad_call'.op # "open"
    /\ vad_conns[d].state = "open"

(* C40: VAD state is per connection: processing audio on, or closing, one
   streaming connection (including /stream/vad and /stream/vad-binary
   connections) never changes the is_speaking flag or frame_buffer observed by
   another concurrently open connection. *)
C40_AsStated ==
    [][\A c, d \in VadConns :
          ActsBeside(c, d) => Observed(d, vad_processors') = Observed(d, vad_processors)]_vars

-----------------------------------------------------------------------------
(* C37: after any audio push processed while recording, and for any sequence of
   control commands (start, stop, pause, resume) interleaved with pushes, the
   controller is ACTIVE (utterance_start set) if and only if the VAD engine's
   is_speaking is true: audio that the VAD classifies as speech is always inside
   an active utterance. *)
C37_AsStated ==
    [][(AudioPush /\ is_recording) =>
          (speech_start_index' # NoneIdx <=> vad_is_speaking')]_vars

-----------------------------------------------------------------------------
\* the most recent config message of the session failed
ConfigFailed == processor \in {"no_key", "test_failed"}

(* C38: a session whose most recent config message failed (missing credential or
   failed connectivity self-test, CONFIGURATION_ERROR sent) processes no audio
   until a later config succeeds: subsequent control start and audio pushes
   append nothing to the buffer and issue no transcription request. *)
C38_AsStated ==
    [][(ConfigFailed /\ last_msg'.type \in {"audio", "control"}) =>
          /\ buffer' = buffer
          /\ results' = results]_vars

-----------------------------------------------------------------------------
\* the timeout after which a session with no inbound message counts as idle
idle_timeout == MaxTime - 1

\* client c is registered and nothing has come from it for the idle timeout
IdleFor(c) == c \in clients /\ wall_time - last_activity[c] >= idle_timeout

(* C35: a session that receives no inbound message for the idle timeout is
   eventually closed by the server: it is removed from the session map and stops
   counting against max_sessions. *)
C35_AsStated == \A c \in IdleConns : IdleFor(c) ~> (c \notin clients)

====
